---- MODULE Spec2Model ----
(***************************************************************************)
(* HOTP (RFC 4226) session of binary141/hotp-go: code derivation           *)
(* (dynamicTruncate, formatCode, CalculateCode), the stateless Validate,   *)
(* and the Hotp session with its look-ahead resynchronisation.             *)
(*                                                                         *)
(* Representation                                                          *)
(*   uint64   four 16-bit limbs, most significant first; arithmetic wraps  *)
(*            modulo 2^64 as Go's does.                                    *)
(*   string   a code is a sequence of one-character strings; a secret is   *)
(*            a string naming its bytes.                                   *)
(*   hasher   the name of the hash constructor stored in Hotp.hasher.      *)
(*   issuer   the package variable set by init() from ISSUER, the value of *)
(*            the environment variable ("" when it is unset); calls holds  *)
(*            the Validate calls in flight when goroutines share a session.*)
(*   HMAC     crypto/hmac is library code; its digests are tabulated for   *)
(*            the secrets and counters the model visits (the SHA-1 rows of *)
(*            the RFC secret at counters 0..9 are RFC 4226 Appendix D).    *)
(***************************************************************************)
EXTENDS Integers, Sequences, FiniteSets, TLC

VARIABLES hotp, last, issuer, calls, ISSUER

vars == <<hotp, last, issuer, calls, ISSUER>>

(* ----------------------------- bounds ---------------------------------- *)

(* Counters visited: each base of CounterBases plus 0..MaxCounter. *)
MaxCounter == 3

(* Look-ahead probes followed in one Validate call before the model gives
   up on it (only a negative window, which Go converts to a huge uint64
   loop bound, can need more than maxLookAheadSize probes). *)
MaxProbe == 11

(* ----------------------------- uint64 ---------------------------------- *)

Limb == 65536

U64Zero == <<0, 0, 0, 0>>

U64Max == <<65535, 65535, 65535, 65535>>

(* A small natural as a uint64. *)
U64Of(n) == <<0, 0, n \div Limb, n % Limb>>

(* a + b in uint64 arithmetic: the carry out of the top limb is dropped. *)
AddU64(a, b) ==
  LET s0 == a[4] + b[4]
      s1 == a[3] + b[3] + (s0 \div Limb)
      s2 == a[2] + b[2] + (s1 \div Limb)
      s3 == a[1] + b[1] + (s2 \div Limb)
  IN  <<s3 % Limb, s2 % Limb, s1 % Limb, s0 % Limb>>

(* a < b on uint64. *)
LessU64(a, b) ==
  \E k \in 1..4 : a[k] < b[k] /\ \A j \in 1..(k - 1) : a[j] = b[j]

(* binary.BigEndian.PutUint64: the eight bytes, most significant first. *)
PutUint64(c) ==
  <<c[1] \div 256, c[1] % 256, c[2] \div 256, c[2] % 256,
    c[3] \div 256, c[3] % 256, c[4] \div 256, c[4] % 256>>

(* ----------------------------- secrets and HMAC ------------------------ *)

(* Secrets are Go strings. The RFC 4226 test secret is ASCII; the README's
   secret is the 20 bytes DecodeSecret returns for
   "UMMZWVYTALVNLF2F2E46CGLB273LSV67", written here in hex. *)
RfcSecret == "12345678901234567890"

ReadmeSecret == "a3199b571302ead59745d139e11961d7f6b957df"

(* HMAC-SHA-1 digests (20 bytes), by secret and 8-byte counter message. *)
HmacSha1 ==
  <<RfcSecret, <<0,0,0,0,0,0,0,0>> >> :>
    <<204,147,207,24,80,141,148,147,76,100,182,93,139,167,102,127,183,205,228,176>> @@
  <<RfcSecret, <<0,0,0,0,0,0,0,1>> >> :>
    <<117,164,138,25,212,203,225,0,100,78,138,193,57,126,234,116,122,45,51,171>> @@
  <<RfcSecret, <<0,0,0,0,0,0,0,2>> >> :>
    <<11,172,183,250,8,47,239,48,120,34,17,147,139,193,197,231,4,22,255,68>> @@
  <<RfcSecret, <<0,0,0,0,0,0,0,3>> >> :>
    <<102,194,130,39,208,58,45,85,41,38,47,240,22,161,230,239,118,85,126,206>> @@
  <<RfcSecret, <<0,0,0,0,0,0,0,4>> >> :>
    <<169,4,201,0,166,75,53,144,152,116,179,62,97,197,147,138,142,21,237,28>> @@
  <<RfcSecret, <<0,0,0,0,0,0,0,5>> >> :>
    <<163,126,120,61,123,114,51,192,131,212,246,41,38,199,162,95,35,141,3,22>> @@
  <<RfcSecret, <<0,0,0,0,0,0,0,6>> >> :>
    <<188,156,210,133,97,4,44,131,242,25,50,77,60,96,114,86,192,50,114,174>> @@
  <<RfcSecret, <<0,0,0,0,0,0,0,7>> >> :>
    <<164,251,150,12,11,192,110,30,171,184,4,229,179,151,205,196,180,85,150,250>> @@
  <<RfcSecret, <<0,0,0,0,0,0,0,8>> >> :>
    <<27,60,137,246,94,108,158,136,48,18,5,40,35,68,63,4,139,67,50,219>> @@
  <<RfcSecret, <<0,0,0,0,0,0,0,9>> >> :>
    <<22,55,64,152,9,166,121,220,105,130,7,49,12,140,127,192,114,144,217,229>> @@
  <<RfcSecret, <<0,0,0,0,0,0,0,10>> >> :>
    <<155,157,213,239,154,154,210,93,215,59,249,172,206,166,111,137,161,37,232,115>> @@
  <<RfcSecret, <<0,0,0,0,0,0,0,11>> >> :>
    <<202,30,4,2,193,158,219,104,37,51,158,160,20,63,11,238,84,252,13,192>> @@
  <<RfcSecret, <<0,0,0,0,0,0,0,12>> >> :>
    <<26,218,244,176,191,64,70,208,86,216,240,14,74,106,150,163,107,201,152,7>> @@
  <<RfcSecret, <<0,0,0,0,0,0,0,13>> >> :>
    <<63,186,127,138,36,141,135,248,166,191,7,154,68,49,53,228,144,162,187,198>> @@
  <<RfcSecret, <<0,0,0,0,0,0,0,14>> >> :>
    <<5,109,16,220,44,5,32,0,204,79,149,253,207,217,34,4,51,114,190,153>> @@
  <<RfcSecret, <<0,0,0,0,0,0,0,15>> >> :>
    <<116,158,63,136,45,78,218,205,203,233,159,184,173,41,132,146,141,136,251,166>> @@
  <<RfcSecret, <<0,0,0,0,0,0,0,16>> >> :>
    <<42,221,131,116,38,38,71,219,194,108,220,208,96,176,154,85,189,249,28,188>> @@
  <<RfcSecret, <<0,0,0,0,0,0,0,17>> >> :>
    <<51,35,26,127,40,233,200,195,117,93,149,190,53,80,47,229,64,86,92,92>> @@
  <<RfcSecret, <<0,0,0,0,0,0,0,18>> >> :>
    <<221,77,145,96,150,210,97,251,126,188,203,79,92,25,188,187,75,98,174,151>> @@
  <<RfcSecret, <<0,0,0,0,0,0,0,19>> >> :>
    <<200,61,170,122,248,192,13,53,4,97,236,234,242,75,156,9,18,190,149,70>> @@
  <<RfcSecret, <<255,255,255,255,255,255,255,254>> >> :>
    <<53,17,69,204,220,7,76,170,127,238,197,215,62,145,231,251,173,251,50,179>> @@
  <<RfcSecret, <<255,255,255,255,255,255,255,255>> >> :>
    <<246,22,253,102,183,240,98,144,104,107,99,32,206,179,77,101,177,254,147,234>> @@
  <<RfcSecret, <<0,0,0,0,0,0,9,81>> >> :>
    <<108,107,194,26,4,239,60,98,69,135,221,87,75,141,206,87,49,94,146,151>> @@
  <<RfcSecret, <<0,0,0,0,0,0,9,82>> >> :>
    <<182,175,90,249,245,42,98,70,24,138,154,83,245,23,203,60,50,27,96,106>> @@
  <<RfcSecret, <<0,0,0,0,0,0,9,83>> >> :>
    <<7,102,229,42,53,87,209,18,38,226,242,124,217,110,97,197,27,174,51,133>> @@
  <<RfcSecret, <<0,0,0,0,0,0,9,84>> >> :>
    <<161,208,123,67,232,73,10,220,7,5,190,160,162,81,176,222,213,134,250,80>> @@
  <<RfcSecret, <<0,0,0,0,0,0,9,85>> >> :>
    <<34,9,190,101,42,53,30,136,168,134,154,238,244,49,139,83,232,205,8,33>> @@
  <<RfcSecret, <<0,0,0,0,0,0,9,86>> >> :>
    <<72,132,85,158,178,153,55,244,15,133,225,209,89,142,24,158,159,128,131,118>> @@
  <<RfcSecret, <<0,0,0,0,0,0,9,87>> >> :>
    <<218,128,0,190,103,28,143,195,254,81,166,70,98,34,47,173,11,95,133,176>> @@
  <<RfcSecret, <<0,0,0,0,0,0,9,88>> >> :>
    <<151,166,10,12,250,194,38,102,67,8,236,111,19,154,65,213,138,107,188,197>> @@
  <<RfcSecret, <<0,0,0,0,0,0,9,89>> >> :>
    <<136,8,1,151,84,46,189,156,187,52,71,86,189,85,223,91,135,117,129,186>> @@
  <<RfcSecret, <<0,0,0,0,0,0,9,90>> >> :>
    <<239,118,91,91,97,237,249,4,103,101,155,206,215,73,143,80,50,223,148,153>> @@
  <<RfcSecret, <<0,0,0,0,0,0,9,91>> >> :>
    <<100,78,152,177,92,101,82,42,44,221,84,111,10,93,10,92,21,170,45,30>> @@
  <<RfcSecret, <<0,0,0,0,0,0,9,92>> >> :>
    <<185,43,251,252,229,162,251,163,72,30,110,58,108,63,194,54,232,69,187,11>> @@
  <<RfcSecret, <<0,0,0,0,0,0,9,93>> >> :>
    <<248,55,82,2,218,212,165,80,212,109,254,102,27,65,63,147,43,93,94,77>> @@
  <<RfcSecret, <<0,0,0,0,0,0,9,94>> >> :>
    <<38,144,16,67,20,250,8,201,195,44,229,48,162,248,5,75,154,47,216,172>> @@
  <<RfcSecret, <<0,0,0,0,0,0,9,95>> >> :>
    <<152,120,202,140,21,223,120,168,21,244,207,181,214,183,119,181,250,87,191,112>> @@
  <<RfcSecret, <<0,0,0,0,0,0,9,96>> >> :>
    <<214,35,145,162,142,216,115,155,142,40,132,211,185,224,109,245,112,97,151,127>> @@
  <<RfcSecret, <<0,0,0,0,0,0,9,97>> >> :>
    <<97,236,88,219,152,162,82,63,158,254,220,188,206,27,196,190,28,179,213,86>> @@
  <<RfcSecret, <<0,0,0,0,0,0,9,98>> >> :>
    <<141,1,208,80,5,236,218,74,22,143,140,24,225,118,92,144,137,4,90,114>> @@
  <<RfcSecret, <<0,0,0,0,0,0,9,99>> >> :>
    <<20,156,35,57,157,29,85,18,3,6,20,10,4,28,227,209,206,242,216,72>> @@
  <<RfcSecret, <<0,0,0,0,0,0,9,100>> >> :>
    <<98,235,238,230,145,65,2,234,53,88,13,164,220,15,180,132,254,17,1,188>> @@
  <<ReadmeSecret, <<0,0,0,0,0,0,0,0>> >> :>
    <<119,179,106,1,107,211,134,192,97,12,204,226,215,126,157,108,204,37,159,99>> @@
  <<ReadmeSecret, <<0,0,0,0,0,0,0,1>> >> :>
    <<109,27,50,211,74,175,44,107,252,18,93,247,164,207,157,122,157,37,35,75>> @@
  <<ReadmeSecret, <<0,0,0,0,0,0,0,2>> >> :>
    <<17,207,184,46,32,31,212,172,16,63,248,144,219,21,66,40,206,9,122,133>> @@
  <<ReadmeSecret, <<0,0,0,0,0,0,0,3>> >> :>
    <<211,191,46,56,120,138,45,225,0,142,196,212,86,95,119,221,106,108,186,192>> @@
  <<ReadmeSecret, <<0,0,0,0,0,0,0,4>> >> :>
    <<103,128,223,185,179,54,215,104,180,174,3,237,75,66,133,113,19,154,3,78>> @@
  <<ReadmeSecret, <<0,0,0,0,0,0,0,5>> >> :>
    <<185,39,169,147,200,174,1,242,36,148,187,215,173,191,240,46,233,20,171,184>> @@
  <<ReadmeSecret, <<0,0,0,0,0,0,0,6>> >> :>
    <<167,13,217,120,132,220,231,208,14,224,189,124,143,73,193,34,162,242,101,192>> @@
  <<ReadmeSecret, <<0,0,0,0,0,0,0,7>> >> :>
    <<125,174,13,119,139,146,170,84,29,232,100,231,165,167,43,35,210,16,12,192>> @@
  <<ReadmeSecret, <<0,0,0,0,0,0,0,8>> >> :>
    <<185,241,239,3,212,174,142,169,153,3,56,88,31,237,127,109,150,62,30,140>> @@
  <<ReadmeSecret, <<0,0,0,0,0,0,0,9>> >> :>
    <<159,193,84,195,66,200,128,235,226,83,50,124,119,210,64,90,184,216,250,178>> @@
  <<ReadmeSecret, <<0,0,0,0,0,0,0,10>> >> :>
    <<182,153,199,46,71,103,78,154,176,43,18,56,245,222,95,81,78,4,249,230>> @@
  <<ReadmeSecret, <<0,0,0,0,0,0,0,11>> >> :>
    <<252,138,215,198,85,45,58,248,194,51,6,188,150,117,92,184,35,33,231,42>> @@
  <<ReadmeSecret, <<0,0,0,0,0,0,0,12>> >> :>
    <<194,170,1,213,32,156,27,168,241,9,120,163,138,133,246,246,183,238,118,122>> @@
  <<ReadmeSecret, <<0,0,0,0,0,0,0,13>> >> :>
    <<43,101,212,253,113,189,155,210,235,145,13,157,37,242,66,154,72,11,247,241>> @@
  <<ReadmeSecret, <<0,0,0,0,0,0,0,14>> >> :>
    <<142,65,244,254,112,27,31,16,80,199,215,4,191,190,152,0,104,119,215,46>> @@
  <<ReadmeSecret, <<0,0,0,0,0,0,0,15>> >> :>
    <<16,252,198,100,245,42,43,171,183,218,41,105,156,196,247,228,209,247,195,254>> @@
  <<ReadmeSecret, <<0,0,0,0,0,0,0,16>> >> :>
    <<98,184,14,184,49,227,203,26,30,72,36,191,82,182,34,190,104,178,191,140>> @@
  <<ReadmeSecret, <<0,0,0,0,0,0,0,17>> >> :>
    <<89,250,56,67,136,171,45,31,189,49,185,136,201,46,208,6,52,108,92,91>> @@
  <<ReadmeSecret, <<0,0,0,0,0,0,0,18>> >> :>
    <<214,145,79,174,59,189,42,157,201,138,250,176,156,199,100,50,170,181,162,30>> @@
  <<ReadmeSecret, <<0,0,0,0,0,0,0,19>> >> :>
    <<95,192,83,89,91,123,165,12,176,192,116,106,81,32,20,236,2,164,166,88>> @@
  <<ReadmeSecret, <<255,255,255,255,255,255,255,254>> >> :>
    <<143,78,137,177,16,58,43,38,54,230,141,104,225,18,131,245,102,219,177,254>> @@
  <<ReadmeSecret, <<255,255,255,255,255,255,255,255>> >> :>
    <<125,215,91,223,189,92,214,118,91,136,195,188,136,182,110,210,15,109,236,5>>

(* HMAC-SHA-256 digests (32 bytes). *)
HmacSha256 ==
  <<RfcSecret, <<0,0,0,0,0,0,0,0>> >> :>
    <<74,185,141,251,179,51,163,59,21,123,172,23,92,117,52,7,107,129,132,203,220,89,67,121,156,148,23,61,148,103,188,249>> @@
  <<RfcSecret, <<0,0,0,0,0,0,0,1>> >> :>
    <<236,157,79,104,123,78,254,106,204,82,16,6,114,102,11,132,192,231,33,11,160,56,33,65,248,236,185,7,150,202,185,18>> @@
  <<RfcSecret, <<0,0,0,0,0,0,0,2>> >> :>
    <<236,200,19,25,195,86,104,204,78,233,70,232,193,230,27,121,196,214,102,176,216,250,169,113,59,37,90,92,83,169,26,153>> @@
  <<RfcSecret, <<0,0,0,0,0,0,0,3>> >> :>
    <<5,112,84,39,201,46,208,97,188,222,238,71,27,167,232,178,254,180,125,31,194,214,247,163,232,229,171,112,126,60,96,3>> @@
  <<RfcSecret, <<0,0,0,0,0,0,0,4>> >> :>
    <<233,111,192,123,152,191,237,161,82,162,144,9,112,167,224,226,221,108,22,181,245,70,211,173,25,56,58,168,69,82,62,94>> @@
  <<RfcSecret, <<0,0,0,0,0,0,0,5>> >> :>
    <<217,143,12,120,122,237,76,58,233,133,162,69,224,133,88,174,205,86,185,210,85,229,191,10,120,86,131,232,213,34,19,29>> @@
  <<RfcSecret, <<0,0,0,0,0,0,0,6>> >> :>
    <<249,208,38,40,140,121,0,117,175,64,76,163,28,33,200,83,136,12,57,159,205,16,175,193,182,52,218,236,90,225,167,50>> @@
  <<RfcSecret, <<0,0,0,0,0,0,0,7>> >> :>
    <<230,187,203,141,185,152,7,190,157,171,48,131,0,167,25,3,158,184,255,93,145,122,248,179,184,255,183,227,130,19,245,242>> @@
  <<RfcSecret, <<0,0,0,0,0,0,0,8>> >> :>
    <<225,254,204,7,160,2,128,29,54,75,85,25,112,73,248,104,68,91,45,241,1,251,219,79,161,171,185,85,202,228,220,236>> @@
  <<RfcSecret, <<0,0,0,0,0,0,0,9>> >> :>
    <<245,202,77,83,105,241,154,25,40,2,241,193,45,13,77,136,93,168,86,249,215,131,136,229,112,174,227,28,36,126,198,125>> @@
  <<RfcSecret, <<0,0,0,0,0,0,0,10>> >> :>
    <<194,10,29,0,184,241,87,142,43,148,131,179,7,98,203,245,106,42,83,62,218,76,97,214,20,27,140,73,106,198,92,130>> @@
  <<RfcSecret, <<0,0,0,0,0,0,0,11>> >> :>
    <<210,20,244,235,146,160,187,195,47,218,215,50,187,46,196,20,83,233,138,204,31,120,228,15,224,95,203,218,43,155,188,195>> @@
  <<RfcSecret, <<0,0,0,0,0,0,0,12>> >> :>
    <<219,147,0,22,200,20,144,240,174,234,127,0,205,74,151,87,48,217,212,72,249,44,166,226,116,114,78,105,170,168,200,208>> @@
  <<RfcSecret, <<0,0,0,0,0,0,0,13>> >> :>
    <<18,153,121,3,55,152,125,241,153,250,33,25,165,234,1,6,233,224,147,132,92,40,153,81,126,202,141,192,141,253,49,39>> @@
  <<RfcSecret, <<0,0,0,0,0,0,0,14>> >> :>
    <<81,19,158,179,113,162,229,24,3,206,249,114,136,178,61,245,25,37,192,173,252,198,78,230,115,139,113,133,155,215,199,181>> @@
  <<RfcSecret, <<0,0,0,0,0,0,0,15>> >> :>
    <<184,225,123,199,105,213,189,166,156,101,104,82,68,219,119,202,153,163,16,69,201,218,211,10,54,91,211,107,189,108,64,94>> @@
  <<RfcSecret, <<0,0,0,0,0,0,0,16>> >> :>
    <<46,27,4,210,45,112,199,118,254,132,173,14,205,155,249,21,23,218,81,26,228,143,73,63,95,178,117,216,71,209,60,229>> @@
  <<RfcSecret, <<0,0,0,0,0,0,0,17>> >> :>
    <<177,139,104,170,232,28,146,94,230,153,213,120,85,94,153,107,102,171,197,1,165,61,49,182,170,52,212,124,143,136,202,85>> @@
  <<RfcSecret, <<0,0,0,0,0,0,0,18>> >> :>
    <<0,216,225,53,26,162,59,227,176,55,135,208,44,179,41,11,48,235,143,171,106,169,77,193,191,196,52,17,48,238,184,36>> @@
  <<RfcSecret, <<0,0,0,0,0,0,0,19>> >> :>
    <<166,164,147,130,96,88,150,58,230,205,3,220,118,146,50,98,1,177,230,17,128,99,175,245,196,92,118,152,55,121,58,210>> @@
  <<RfcSecret, <<255,255,255,255,255,255,255,254>> >> :>
    <<94,248,27,104,236,56,159,38,45,187,11,200,245,127,28,185,95,203,10,62,13,177,8,130,179,97,135,121,143,89,4,141>> @@
  <<RfcSecret, <<255,255,255,255,255,255,255,255>> >> :>
    <<133,10,151,18,104,253,124,180,249,1,168,12,77,10,37,58,33,63,250,143,106,42,45,227,143,71,212,9,222,148,71,137>> @@
  <<ReadmeSecret, <<0,0,0,0,0,0,0,0>> >> :>
    <<161,172,6,252,30,178,163,93,143,158,182,127,46,123,206,178,149,76,47,17,76,217,206,52,40,207,29,22,57,48,3,183>> @@
  <<ReadmeSecret, <<0,0,0,0,0,0,0,1>> >> :>
    <<251,163,12,210,238,186,179,40,231,63,226,233,233,74,9,166,108,70,40,177,74,25,179,155,75,171,206,222,97,19,45,145>> @@
  <<ReadmeSecret, <<0,0,0,0,0,0,0,2>> >> :>
    <<199,114,215,173,40,163,107,211,44,161,249,150,36,237,218,104,187,250,180,201,7,163,108,50,215,46,139,87,43,155,251,80>> @@
  <<ReadmeSecret, <<0,0,0,0,0,0,0,3>> >> :>
    <<117,196,107,231,65,143,195,157,1,31,249,111,115,67,200,252,134,134,158,20,68,184,91,96,222,247,146,231,255,80,133,23>> @@
  <<ReadmeSecret, <<0,0,0,0,0,0,0,4>> >> :>
    <<87,134,7,57,36,65,78,214,194,66,248,174,107,157,162,109,235,131,47,36,140,2,241,10,196,30,207,177,189,185,4,204>> @@
  <<ReadmeSecret, <<0,0,0,0,0,0,0,5>> >> :>
    <<127,220,31,247,163,79,37,248,242,140,86,24,233,195,178,89,190,29,40,88,171,242,59,152,110,84,31,90,85,105,26,168>> @@
  <<ReadmeSecret, <<0,0,0,0,0,0,0,6>> >> :>
    <<159,161,175,229,146,72,238,160,84,122,161,149,109,120,159,201,184,73,2,156,61,251,92,88,238,39,231,243,246,0,235,50>> @@
  <<ReadmeSecret, <<0,0,0,0,0,0,0,7>> >> :>
    <<172,198,226,242,102,201,107,34,194,157,50,138,151,140,94,98,199,40,66,97,206,218,140,161,244,133,143,241,83,156,157,245>> @@
  <<ReadmeSecret, <<0,0,0,0,0,0,0,8>> >> :>
    <<111,9,108,42,255,198,134,166,242,196,217,218,176,57,139,80,71,184,252,211,17,6,45,15,11,213,201,197,114,98,84,131>> @@
  <<ReadmeSecret, <<0,0,0,0,0,0,0,9>> >> :>
    <<201,177,240,236,236,225,249,195,6,170,179,182,123,1,25,48,143,42,126,190,52,4,107,206,171,10,50,54,182,155,240,219>> @@
  <<ReadmeSecret, <<0,0,0,0,0,0,0,10>> >> :>
    <<60,102,78,46,174,77,150,245,22,250,140,17,212,159,202,204,65,132,160,206,102,128,199,187,144,64,111,205,239,135,40,206>> @@
  <<ReadmeSecret, <<0,0,0,0,0,0,0,11>> >> :>
    <<119,216,255,203,159,81,186,132,253,54,189,3,190,67,23,129,84,62,17,16,108,197,53,111,66,82,162,136,50,79,174,128>> @@
  <<ReadmeSecret, <<0,0,0,0,0,0,0,12>> >> :>
    <<7,12,70,218,222,50,122,190,179,105,248,154,18,44,131,99,14,147,234,86,32,149,110,206,169,176,181,229,180,57,24,193>> @@
  <<ReadmeSecret, <<0,0,0,0,0,0,0,13>> >> :>
    <<85,166,102,27,131,134,159,169,125,85,103,63,227,183,71,24,74,65,252,227,128,39,83,20,94,43,152,188,51,54,157,61>> @@
  <<ReadmeSecret, <<0,0,0,0,0,0,0,14>> >> :>
    <<97,245,39,93,222,38,144,224,147,52,14,199,157,111,124,48,227,133,172,60,94,208,135,53,168,34,254,30,32,55,58,12>> @@
  <<ReadmeSecret, <<0,0,0,0,0,0,0,15>> >> :>
    <<159,20,194,9,196,237,130,174,163,245,175,246,73,181,64,42,194,168,136,186,14,152,197,74,189,40,152,166,60,154,129,219>> @@
  <<ReadmeSecret, <<0,0,0,0,0,0,0,16>> >> :>
    <<59,53,255,163,2,25,179,231,22,49,164,178,28,255,35,124,121,55,134,64,143,15,127,16,31,143,48,34,202,179,49,14>> @@
  <<ReadmeSecret, <<0,0,0,0,0,0,0,17>> >> :>
    <<17,185,113,133,81,135,99,165,118,171,110,55,17,127,41,11,108,184,231,114,199,69,15,246,53,198,122,178,130,96,74,60>> @@
  <<ReadmeSecret, <<0,0,0,0,0,0,0,18>> >> :>
    <<209,242,116,227,0,116,241,208,1,49,188,20,199,98,166,72,22,214,164,134,188,68,157,14,125,71,234,0,174,160,75,12>> @@
  <<ReadmeSecret, <<0,0,0,0,0,0,0,19>> >> :>
    <<84,202,136,148,96,177,167,104,202,243,40,71,220,71,130,100,35,238,240,225,12,143,228,109,122,213,176,62,171,67,204,238>> @@
  <<ReadmeSecret, <<255,255,255,255,255,255,255,254>> >> :>
    <<186,48,76,239,199,248,30,3,105,234,62,92,204,236,69,9,189,218,104,38,221,132,130,10,19,161,132,33,246,174,203,145>> @@
  <<ReadmeSecret, <<255,255,255,255,255,255,255,255>> >> :>
    <<27,242,173,120,167,231,107,70,13,107,115,114,206,190,6,136,246,248,117,246,68,208,168,203,165,229,63,255,32,236,202,195>>

(* HMAC-SHA-512 digests (64 bytes). *)
HmacSha512 ==
  <<RfcSecret, <<0,0,0,0,0,0,0,0>> >> :>
    <<197,164,2,55,237,107,184,173,39,248,56,245,8,53,150,53,230,62,4,190,210,41,216,71,209,99,38,145,182,74,142,219,56,229,152,129,126,60,158,96,128,177,112,156,110,148,57,11,186,179,18,11,204,250,155,213,36,8,42,239,152,210,74,193>> @@
  <<RfcSecret, <<0,0,0,0,0,0,0,1>> >> :>
    <<104,160,217,252,127,107,200,227,6,10,76,167,153,150,3,182,195,93,74,247,178,158,24,197,79,79,145,140,36,64,180,123,109,142,43,43,70,223,37,241,36,48,104,169,38,45,129,200,135,158,7,213,73,145,165,236,120,61,183,56,75,11,145,13>> @@
  <<RfcSecret, <<0,0,0,0,0,0,0,2>> >> :>
    <<220,247,168,9,201,182,159,157,153,206,56,196,147,169,255,94,158,138,140,90,36,98,59,179,131,133,42,199,84,162,197,2,56,49,107,222,152,226,4,88,63,250,30,240,53,217,121,38,20,230,181,59,88,121,140,187,84,249,50,164,125,32,76,66>> @@
  <<RfcSecret, <<0,0,0,0,0,0,0,3>> >> :>
    <<122,124,72,207,37,19,162,51,43,38,52,172,110,49,210,244,154,200,253,48,18,227,106,247,207,211,84,46,193,216,7,194,236,247,124,138,255,41,3,67,60,176,40,1,243,165,191,194,119,8,245,95,89,81,68,37,0,136,3,77,38,158,31,198>> @@
  <<RfcSecret, <<0,0,0,0,0,0,0,4>> >> :>
    <<158,241,49,16,73,108,225,46,222,74,115,102,204,157,129,244,77,232,201,144,219,126,29,71,182,247,71,101,182,157,198,60,205,93,134,113,152,24,179,238,231,142,104,99,242,113,81,41,134,29,91,244,5,138,92,145,225,220,89,114,61,147,108,152>> @@
  <<RfcSecret, <<0,0,0,0,0,0,0,5>> >> :>
    <<108,119,179,13,186,29,115,218,105,68,201,196,95,27,66,65,166,86,135,19,10,133,208,166,48,101,149,2,92,113,180,193,221,247,205,37,249,33,149,182,82,1,240,169,104,124,143,122,219,78,30,183,27,143,193,238,158,161,39,181,157,198,157,183>> @@
  <<RfcSecret, <<0,0,0,0,0,0,0,6>> >> :>
    <<229,217,226,36,49,216,106,184,3,99,183,187,81,191,60,99,180,129,200,3,50,225,48,50,108,152,93,132,189,74,160,207,122,16,232,130,115,240,155,60,251,151,125,77,244,166,107,115,26,219,69,255,62,97,226,232,46,223,18,213,55,37,123,244>> @@
  <<RfcSecret, <<0,0,0,0,0,0,0,7>> >> :>
    <<93,42,233,38,7,72,222,75,43,107,80,163,94,205,129,88,171,199,148,66,45,181,123,228,89,129,174,141,182,21,101,242,201,77,76,142,195,208,230,244,179,120,35,210,38,230,251,161,221,64,136,159,157,167,80,111,200,62,240,149,122,182,37,222>> @@
  <<RfcSecret, <<0,0,0,0,0,0,0,8>> >> :>
    <<149,14,155,1,39,227,155,31,38,47,255,0,255,130,25,155,167,48,121,86,50,8,206,234,192,219,206,89,26,14,129,136,53,53,141,4,68,206,83,145,191,163,159,60,122,153,174,98,8,119,230,115,94,37,112,55,29,6,96,227,148,194,94,49>> @@
  <<RfcSecret, <<0,0,0,0,0,0,0,9>> >> :>
    <<66,113,103,32,69,245,87,227,61,222,222,213,189,156,37,145,154,139,196,13,176,112,66,226,162,199,172,185,17,168,223,173,185,96,120,47,34,190,120,115,97,194,60,1,95,244,0,152,71,159,113,1,207,227,148,96,249,32,70,175,121,73,61,60>> @@
  <<RfcSecret, <<0,0,0,0,0,0,0,10>> >> :>
    <<238,168,136,64,85,163,123,133,166,103,27,235,249,57,148,192,14,8,105,3,117,83,239,68,104,34,85,4,242,156,252,219,131,31,43,127,129,179,222,177,71,138,72,186,137,99,113,131,202,137,2,58,131,152,69,21,18,55,28,83,255,245,121,145>> @@
  <<RfcSecret, <<0,0,0,0,0,0,0,11>> >> :>
    <<206,236,182,227,16,65,30,121,203,53,35,207,21,73,125,80,83,188,2,233,125,17,29,3,154,168,162,3,205,45,63,199,136,197,240,12,50,180,152,79,168,217,110,216,147,169,88,200,17,218,33,3,200,117,249,100,27,29,75,111,70,233,217,125>> @@
  <<RfcSecret, <<0,0,0,0,0,0,0,12>> >> :>
    <<3,178,242,182,52,52,116,6,47,27,192,80,76,230,23,71,211,60,182,81,208,68,219,87,163,96,61,250,131,44,232,8,41,133,233,223,4,26,16,230,25,202,59,191,43,125,120,67,156,29,51,148,245,224,48,189,236,188,106,1,216,203,172,23>> @@
  <<RfcSecret, <<0,0,0,0,0,0,0,13>> >> :>
    <<38,194,70,44,48,118,139,214,231,98,223,181,239,137,194,95,167,66,7,173,216,206,132,154,60,51,83,144,155,186,6,90,72,117,128,9,52,28,124,83,35,116,86,20,48,11,37,210,187,131,156,166,70,109,170,134,226,185,119,146,128,120,119,16>> @@
  <<RfcSecret, <<0,0,0,0,0,0,0,14>> >> :>
    <<160,104,50,222,37,244,57,186,168,202,120,3,2,140,150,12,62,88,135,46,197,92,190,72,13,189,55,70,235,11,225,84,87,130,218,177,112,35,145,60,165,111,141,16,253,116,80,178,22,228,86,70,210,212,194,161,76,242,168,119,247,138,221,107>> @@
  <<RfcSecret, <<0,0,0,0,0,0,0,15>> >> :>
    <<99,239,52,167,103,157,171,160,253,199,205,49,68,43,240,79,64,87,197,104,226,254,160,83,209,90,231,169,255,149,171,90,91,88,59,39,166,85,141,225,83,237,33,0,169,235,43,45,58,115,254,178,111,194,129,38,218,48,150,91,160,10,69,49>> @@
  <<RfcSecret, <<0,0,0,0,0,0,0,16>> >> :>
    <<240,237,30,62,123,71,113,162,118,217,59,223,53,108,243,238,82,50,142,102,155,6,60,92,223,30,157,77,235,227,79,34,112,210,147,242,144,164,113,217,132,156,77,125,241,233,178,180,119,227,214,156,167,100,161,132,144,217,10,147,42,219,84,128>> @@
  <<RfcSecret, <<0,0,0,0,0,0,0,17>> >> :>
    <<136,241,103,216,244,106,96,113,123,252,200,82,137,161,132,90,65,220,225,129,134,84,135,232,46,192,233,11,121,136,215,254,188,8,22,114,132,10,12,155,119,145,184,185,61,5,64,214,13,151,183,10,105,127,42,28,173,101,43,200,147,199,181,114>> @@
  <<RfcSecret, <<0,0,0,0,0,0,0,18>> >> :>
    <<143,10,248,31,25,35,38,67,56,187,126,142,51,49,56,0,29,196,26,24,118,100,55,80,108,158,33,30,76,115,53,182,139,179,47,60,93,105,245,180,236,87,59,99,136,96,77,202,234,255,37,240,28,198,39,87,96,84,42,47,239,231,108,68>> @@
  <<RfcSecret, <<0,0,0,0,0,0,0,19>> >> :>
    <<211,177,78,4,168,145,56,8,30,245,34,183,70,138,24,137,206,174,186,139,104,208,86,80,133,90,146,46,245,76,79,77,43,249,143,243,39,191,25,13,5,175,134,121,87,109,226,220,210,104,137,70,108,86,4,73,216,253,135,32,140,141,110,100>> @@
  <<RfcSecret, <<255,255,255,255,255,255,255,254>> >> :>
    <<232,118,201,161,55,247,235,0,252,204,88,153,185,107,209,250,8,103,198,248,121,24,51,62,56,242,170,151,25,237,133,13,228,107,113,55,244,211,217,82,160,112,9,184,120,109,100,218,47,169,221,92,16,242,209,246,179,87,9,222,56,127,58,149>> @@
  <<RfcSecret, <<255,255,255,255,255,255,255,255>> >> :>
    <<184,166,92,195,249,210,194,62,86,11,0,102,40,53,99,9,153,247,1,40,191,111,202,25,46,234,90,22,22,19,220,69,233,17,71,19,127,63,105,254,142,144,234,237,71,61,172,180,48,8,62,119,152,87,29,123,202,145,217,47,178,130,66,214>> @@
  <<ReadmeSecret, <<0,0,0,0,0,0,0,0>> >> :>
    <<144,199,134,109,192,194,128,208,101,169,154,227,91,206,23,144,52,141,117,95,17,161,148,51,5,18,135,148,58,49,199,126,59,51,157,169,95,227,66,255,149,145,227,201,113,238,52,30,148,151,193,167,1,186,197,211,227,105,170,191,223,253,7,169>> @@
  <<ReadmeSecret, <<0,0,0,0,0,0,0,1>> >> :>
    <<171,228,201,169,79,72,171,4,232,114,130,146,88,147,25,152,230,216,199,240,63,0,161,0,149,7,45,86,133,12,210,42,205,185,115,89,248,128,168,252,96,155,5,252,195,11,35,122,158,215,152,227,192,95,201,199,186,53,248,24,123,81,229,254>> @@
  <<ReadmeSecret, <<0,0,0,0,0,0,0,2>> >> :>
    <<3,94,114,164,29,165,130,106,251,39,23,215,35,27,87,38,80,16,66,4,82,69,71,241,84,166,197,9,129,15,54,196,180,207,213,0,51,56,39,187,171,212,169,166,178,197,193,4,251,129,108,65,176,93,63,35,115,132,255,205,211,199,254,67>> @@
  <<ReadmeSecret, <<0,0,0,0,0,0,0,3>> >> :>
    <<59,27,31,194,132,106,28,234,235,74,184,237,157,84,30,212,73,180,88,108,77,88,56,98,5,133,31,142,4,44,39,235,145,86,171,205,117,184,122,148,217,115,158,83,59,237,169,208,237,17,201,117,84,96,168,55,132,83,220,135,87,219,62,50>> @@
  <<ReadmeSecret, <<0,0,0,0,0,0,0,4>> >> :>
    <<201,247,221,78,120,52,75,155,104,246,158,101,231,52,57,194,85,171,237,10,179,181,111,244,118,148,148,143,42,213,90,92,197,111,138,189,52,255,180,214,128,192,98,83,253,200,127,254,48,236,93,42,103,134,124,156,149,73,87,168,202,157,127,135>> @@
  <<ReadmeSecret, <<0,0,0,0,0,0,0,5>> >> :>
    <<113,141,244,64,155,44,9,178,36,255,196,140,246,204,148,198,197,43,251,193,249,120,235,82,206,181,110,69,195,143,26,31,77,218,111,153,29,105,216,251,218,64,208,225,240,60,251,196,215,116,68,24,157,25,211,157,186,94,52,124,186,173,193,214>> @@
  <<ReadmeSecret, <<0,0,0,0,0,0,0,6>> >> :>
    <<171,51,130,93,114,11,162,202,213,26,109,212,12,10,2,138,127,46,68,130,187,193,172,27,233,22,211,162,76,98,157,55,177,5,57,189,160,222,93,123,25,231,145,81,63,50,116,221,189,196,172,71,209,215,48,216,240,228,161,212,216,21,49,182>> @@
  <<ReadmeSecret, <<0,0,0,0,0,0,0,7>> >> :>
    <<206,79,195,209,56,227,6,196,32,89,219,195,220,181,70,48,198,204,147,196,218,58,136,195,104,136,76,207,83,172,199,202,4,108,167,242,243,238,91,7,14,178,115,52,136,81,7,168,30,254,246,6,252,127,197,74,159,239,147,72,132,121,123,186>> @@
  <<ReadmeSecret, <<0,0,0,0,0,0,0,8>> >> :>
    <<124,103,103,126,55,100,26,142,227,87,239,54,247,169,78,46,242,220,254,12,3,46,2,95,33,134,21,160,146,245,97,206,136,172,65,163,122,56,169,94,242,57,150,61,255,92,32,251,125,104,57,249,150,77,7,10,89,64,177,182,126,150,214,80>> @@
  <<ReadmeSecret, <<0,0,0,0,0,0,0,9>> >> :>
    <<62,112,164,255,59,53,22,253,189,25,179,143,19,124,130,205,255,139,232,166,137,36,214,28,28,69,1,152,49,143,65,72,165,210,29,15,132,58,240,4,122,64,254,101,66,65,179,248,20,66,116,229,4,105,178,148,96,197,4,121,224,133,185,98>> @@
  <<ReadmeSecret, <<0,0,0,0,0,0,0,10>> >> :>
    <<79,225,255,86,210,102,2,44,234,214,133,51,178,42,99,220,197,186,176,228,24,120,116,166,212,75,114,12,80,174,221,3,118,234,138,64,84,122,168,116,141,144,204,238,80,124,7,13,7,146,120,69,171,165,12,136,65,195,239,211,42,38,122,161>> @@
  <<ReadmeSecret, <<0,0,0,0,0,0,0,11>> >> :>
    <<97,214,139,95,101,247,6,67,201,1,69,180,22,212,44,143,131,105,62,173,120,167,144,41,235,68,199,15,121,203,42,138,106,89,195,255,12,248,178,60,74,247,252,178,8,68,190,178,179,253,252,106,6,138,180,179,144,177,43,230,182,228,245,14>> @@
  <<ReadmeSecret, <<0,0,0,0,0,0,0,12>> >> :>
    <<148,63,110,165,218,186,208,141,51,179,124,94,156,154,241,228,109,125,153,233,146,255,158,67,232,189,253,5,11,155,146,121,43,45,240,211,229,90,47,50,155,93,33,201,252,172,142,95,159,253,52,199,169,197,120,112,21,223,237,33,200,203,29,231>> @@
  <<ReadmeSecret, <<0,0,0,0,0,0,0,13>> >> :>
    <<116,30,212,0,226,141,29,79,126,68,203,177,52,59,210,243,74,253,16,50,79,38,58,108,90,172,229,26,123,29,173,26,60,62,2,217,179,112,224,160,35,239,55,119,65,222,196,71,119,200,230,13,240,219,13,188,31,156,37,44,170,227,30,160>> @@
  <<ReadmeSecret, <<0,0,0,0,0,0,0,14>> >> :>
    <<106,21,91,89,166,206,163,145,41,235,75,70,250,116,96,88,111,177,199,83,228,64,63,53,24,102,3,252,17,214,50,137,216,10,0,71,217,60,138,207,147,227,78,89,148,181,173,33,36,158,18,242,220,158,53,228,73,133,133,22,63,119,137,100>> @@
  <<ReadmeSecret, <<0,0,0,0,0,0,0,15>> >> :>
    <<128,44,220,224,187,217,3,94,177,176,121,28,245,25,159,41,76,176,217,109,223,207,132,100,174,40,203,243,19,30,50,199,195,73,52,54,163,240,47,244,95,210,58,65,118,105,92,64,172,171,223,235,135,240,207,91,167,27,95,39,104,209,36,58>> @@
  <<ReadmeSecret, <<0,0,0,0,0,0,0,16>> >> :>
    <<144,252,67,3,90,78,50,98,175,135,118,165,83,18,100,33,123,63,40,13,251,189,32,158,151,79,85,238,238,34,1,37,191,75,246,86,217,18,10,195,6,120,255,154,7,23,120,81,145,183,166,68,67,9,128,105,20,245,196,14,29,158,159,200>> @@
  <<ReadmeSecret, <<0,0,0,0,0,0,0,17>> >> :>
    <<152,29,35,151,18,222,84,45,230,43,22,163,99,130,247,44,46,192,209,24,27,108,158,150,161,182,15,220,248,11,98,62,224,211,73,77,31,7,180,77,35,128,41,142,28,79,30,247,241,15,251,28,4,82,156,40,164,9,185,107,104,43,80,252>> @@
  <<ReadmeSecret, <<0,0,0,0,0,0,0,18>> >> :>
    <<120,159,73,183,226,20,183,108,227,75,78,220,187,19,215,145,96,146,39,250,135,224,208,127,118,164,242,208,17,242,186,73,31,167,169,62,83,193,122,137,188,61,184,150,101,16,208,242,210,154,193,22,147,28,211,114,84,5,69,40,127,105,9,47>> @@
  <<ReadmeSecret, <<0,0,0,0,0,0,0,19>> >> :>
    <<193,249,217,18,223,28,196,10,98,212,84,98,128,136,227,25,40,87,8,132,155,155,243,8,12,113,130,3,19,6,138,91,88,77,252,29,91,250,31,57,125,32,35,178,116,31,243,99,244,199,219,143,36,191,192,103,127,130,123,83,253,164,57,130>> @@
  <<ReadmeSecret, <<255,255,255,255,255,255,255,254>> >> :>
    <<166,177,49,1,98,126,128,158,174,167,158,162,193,10,224,101,213,103,241,2,51,99,168,165,177,13,60,146,141,141,154,222,232,55,103,207,146,100,239,147,198,6,243,13,181,91,33,49,228,102,103,172,174,249,2,68,67,156,222,172,58,60,26,146>> @@
  <<ReadmeSecret, <<255,255,255,255,255,255,255,255>> >> :>
    <<237,130,96,230,213,253,231,14,236,60,153,78,88,244,43,205,182,230,91,196,116,253,182,192,15,206,73,72,156,79,250,112,48,9,177,27,187,212,9,62,165,32,6,25,114,161,254,167,89,31,154,33,100,113,244,183,46,192,59,82,21,32,20,101>>


(* HashFunc identifiers (the const block) and the constructors they name. *)
SHA1 == "sha1"

SHA256 == "sha256"

SHA512 == "sha512"

Hashers == {"sha1.New", "sha256.New", "sha512.New"}

(* hmac.New(hasher, []byte(secret)); Write(msg); Sum(nil). *)
HmacSum(hasher, secret, msg) ==
  CASE hasher = "sha1.New"   -> HmacSha1[<<secret, msg>>]
    [] hasher = "sha256.New" -> HmacSha256[<<secret, msg>>]
    [] hasher = "sha512.New" -> HmacSha512[<<secret, msg>>]

(* The digest of this (hasher, secret, counter) is tabulated. *)
Known(hasher, secret, counter) ==
  CASE hasher = "sha1.New"   -> <<secret, PutUint64(counter)>> \in DOMAIN HmacSha1
    [] hasher = "sha256.New" -> <<secret, PutUint64(counter)>> \in DOMAIN HmacSha256
    [] hasher = "sha512.New" -> <<secret, PutUint64(counter)>> \in DOMAIN HmacSha512
    [] OTHER -> FALSE

(* ----------------------------- code derivation ------------------------- *)

(* Fault variant: the top bit of P[0] is not cleared (P[0] & 0xff), so the
   int32 is negative when it is set. *)
dynamicTruncateNoMask(secret, counter, hasher) ==
  LET hash       == HmacSum(hasher, secret, PutUint64(counter))
      offsetBits == SubSeq(hash, 1, 20)
      offset     == offsetBits[20] % 16
      P          == SubSeq(hash, offset + 1, offset + 4)
      a          == IF P[1] >= 128 THEN P[1] - 256 ELSE P[1]
  IN  a * 16777216 + P[2] * 65536 + P[3] * 256 + P[4]

(* dynamicTruncate: the offset is the low nibble of hash[19] (offsetBits is
   hash[0:20]); P is hash[offset : offset+4]; the top bit of P[0] is
   cleared and the four bytes are read big-endian into an int32. *)
dynamicTruncate(secret, counter, hasher) ==
  LET hash       == HmacSum(hasher, secret, PutUint64(counter))
      offsetBits == SubSeq(hash, 1, 20)
      offset     == offsetBits[20] % 16
      P          == SubSeq(hash, offset + 1, offset + 4)
      a          == P[1] % 128
      b          == P[2] % 256
      c          == P[3] % 256
      d          == P[4] % 256
  IN  a * 16777216 + b * 65536 + c * 256 + d

(* math.Pow10 for the digit counts of the model (1..9: exact in int32). *)
RECURSIVE Pow10(_)
Pow10(n) == IF n = 0 THEN 1 ELSE 10 * Pow10(n - 1)

DigitChar == <<"0", "1", "2", "3", "4", "5", "6", "7", "8", "9">>

(* %d of a non-negative integer: its decimal digits, no padding. *)
RECURSIVE Decimal(_)
Decimal(n) ==
  IF n < 10 THEN <<DigitChar[n + 1]>>
  ELSE Append(Decimal(n \div 10), DigitChar[(n % 10) + 1])

RECURSIVE Zeros(_)
Zeros(n) == IF n <= 0 THEN <<>> ELSE <<"0">> \o Zeros(n - 1)

(* Fault variant: plain %d, the zero padding lost. *)
formatCodeNoPad(code, digits) ==
  IF code < 0 THEN <<"-">> \o Decimal(0 - code) ELSE Decimal(code)

(* formatCode: fmt.Sprintf("%0<digits>d", code). The width is a minimum:
   zeros fill up to it after the sign, and a longer number is not cut. *)
formatCode(code, digits) ==
  LET sign == IF code < 0 THEN <<"-">> ELSE <<>>
      num  == Decimal(IF code < 0 THEN 0 - code ELSE code)
  IN  sign \o Zeros(digits - Len(sign) - Len(num)) \o num

(* CalculateCode: int(Sbits % int32(math.Pow10(digits))), then formatCode. *)
CalculateCode(secret, counter, digits, hasher) ==
  LET Sbits == dynamicTruncate(secret, counter, hasher)
      code  == Sbits % Pow10(digits)
  IN  formatCode(code, digits)

(* The package-level Validate: the canonical strings are compared. *)
Validate(secret, counter, digits, code, hasher) ==
  LET correctCode   == CalculateCode(secret, counter, digits, hasher)
      formattedCode == formatCode(code, digits)
  IN  correctCode = formattedCode
(* ----------------------------- utilities ------------------------------ *)

(* []byte(secret) for the secrets of the model. *)
SecretBytes ==
  RfcSecret :> <<49, 50, 51, 52, 53, 54, 55, 56, 57, 48, 49, 50, 51, 52, 53, 54, 55, 56, 57, 48>>
  @@ ReadmeSecret :> <<163, 25, 155, 87, 19, 2, 234, 213, 151, 69, 209, 57, 225, 25, 97, 215, 246, 185, 87, 223>>

(* Bytes a generated secret is made of, and the lengths asked for. *)
MaxSecretLen == 5

SecretByteValues == {0, 255}

(* GenerateSecret(length): rand.Read fills the slice; any content may come
   out. *)
GenerateSecret(length) == [1..length -> SecretByteValues]

(* encoding/base32 is library code, modelled by what RFC 4648 and the
   package do.  The standard alphabet: *)
encodeStd ==
  <<"A", "B", "C", "D", "E", "F", "G", "H", "I", "J", "K", "L", "M", "N", "O", "P", "Q", "R", "S", "T", "U", "V", "W", "X", "Y", "Z", "2", "3", "4", "5", "6", "7">>

padChar == "="

(* The index of a character in the alphabet, 255 when it is not in it
   (decodeMap). *)
decodeMap(ch) ==
  IF \E k \in 1..32 : encodeStd[k] = ch
  THEN (CHOOSE k \in 1..32 : encodeStd[k] = ch) - 1
  ELSE 255

RECURSIVE Pow2(_)
Pow2(n) == IF n = 0 THEN 1 ELSE 2 * Pow2(n - 1)

(* Bit j (0 = most significant bit of the first byte) of src, 0 past its
   end. *)
Bit(src, j) ==
  IF j >= 8 * Len(src) THEN 0
  ELSE (src[(j \div 8) + 1] \div Pow2(7 - (j % 8))) % 2

(* The k-th 5-bit group of src (k from 0). *)
Quintet(src, k) ==
  16 * Bit(src, 5 * k) + 8 * Bit(src, 5 * k + 1) + 4 * Bit(src, 5 * k + 2)
    + 2 * Bit(src, 5 * k + 3) + Bit(src, 5 * k + 4)

RECURSIVE Pad(_)
Pad(n) == IF n <= 0 THEN <<>> ELSE <<padChar>> \o Pad(n - 1)

(* Encoding.EncodeToString: one character for each started 5-bit group;
   with padding the last quantum is filled to 8 characters. *)
EncodeToString(src, padding) ==
  LET n     == ((8 * Len(src)) + 4) \div 5
      chars == [k \in 1..n |-> encodeStd[Quintet(src, k - 1) + 1]]
  IN  IF padding THEN chars \o Pad((8 - (n % 8)) % 8) ELSE chars

(* EncodeSecret: StdEncoding.WithPadding(NoPadding).EncodeToString. *)
EncodeSecret(secret) == EncodeToString(secret, FALSE)

(* One quantum of Encoding.decode: up to 8 characters are read into dbuf.
   The input ending inside a quantum is an error when the encoding pads;
   a padding character ends the input and must complete the quantum. *)
RECURSIVE decodeQuantum(_, _, _, _)
decodeQuantum(src, j, dbuf, padding) ==
  IF j = 8
  THEN [err |-> FALSE, dlen |-> 8, dbuf |-> dbuf, src |-> src, end |-> FALSE]
  ELSE IF src = <<>>
  THEN IF padding
       THEN [err |-> TRUE, dlen |-> j, dbuf |-> dbuf, src |-> src, end |-> FALSE]
       ELSE [err |-> FALSE, dlen |-> j, dbuf |-> dbuf, src |-> src, end |-> TRUE]
  ELSE LET in   == Head(src)
           rest == Tail(src)
       IN  IF padding /\ in = padChar /\ j >= 2 /\ Len(rest) < 8
           THEN [err  |-> \/ Len(rest) + j < 8 - 1
                          \/ \E k \in 0..(8 - 1 - j - 1) :
                               Len(rest) > k /\ rest[k + 1] # padChar
                          \/ j \in {1, 3, 6},
                 dlen |-> j, dbuf |-> dbuf, src |-> rest, end |-> TRUE]
           ELSE IF decodeMap(in) = 255
           THEN [err |-> TRUE, dlen |-> j, dbuf |-> dbuf, src |-> rest,
                 end |-> FALSE]
           ELSE decodeQuantum(rest, j + 1, Append(dbuf, decodeMap(in)), padding)

(* The bytes a quantum of dlen characters packs into (the fallthrough
   switch of Encoding.decode): 8 -> 5 bytes, 7 -> 4, 5 -> 3, 4 -> 2, 2 -> 1,
   any other length -> none. *)
packQuantum(dbuf, dlen) ==
  LET d(k) == IF k <= Len(dbuf) THEN dbuf[k] ELSE 0
      dst  == << (d(1) * 8 + d(2) \div 4) % 256,
                 (d(2) * 64 + d(3) * 2 + d(4) \div 16) % 256,
                 (d(4) * 16 + d(5) \div 2) % 256,
                 (d(5) * 128 + d(6) * 4 + d(7) \div 8) % 256,
                 (d(7) * 32 + d(8)) % 256 >>
      n    == CASE dlen = 8 -> 5
                [] dlen = 7 -> 4
                [] dlen = 5 -> 3
                [] dlen = 4 -> 2
                [] dlen = 2 -> 1
                [] OTHER -> 0
  IN  SubSeq(dst, 1, n)

(* Encoding.DecodeString: quantum after quantum until the input or the
   padding ends it. *)
RECURSIVE DecodeString(_, _)
DecodeString(src, padding) ==
  IF src = <<>>
  THEN [out |-> <<>>, err |-> FALSE]
  ELSE LET q == decodeQuantum(src, 0, <<>>, padding)
       IN  IF q.err
           THEN [out |-> <<>>, err |-> TRUE]
           ELSE IF q.end
           THEN [out |-> packQuantum(q.dbuf, q.dlen), err |-> FALSE]
           ELSE LET r == DecodeString(q.src, padding)
                IN  [out |-> IF r.err THEN <<>>
                             ELSE packQuantum(q.dbuf, q.dlen) \o r.out,
                     err |-> r.err]

(* DecodeSecret: base32.StdEncoding.DecodeString, the padded encoding; on
   an error the empty string is returned with it. *)
DecodeSecret(secret) == DecodeString(secret, TRUE)

(* A sequence of characters as one string. *)
RECURSIVE Join(_)
Join(s) == IF s = <<>> THEN "" ELSE Head(s) \o Join(Tail(s))

(* Quotient and remainder of a uint64 by 10, limb by limb. *)
DivMod10(c) ==
  LET n1 == c[1]
      n2 == (n1 % 10) * Limb + c[2]
      n3 == (n2 % 10) * Limb + c[3]
      n4 == (n3 % 10) * Limb + c[4]
  IN  [q |-> <<n1 \div 10, n2 \div 10, n3 \div 10, n4 \div 10>>,
       r |-> n4 % 10]

(* %d of a uint64. *)
RECURSIVE DecimalU64(_)
DecimalU64(c) ==
  IF DivMod10(c).q = U64Zero
  THEN <<DigitChar[DivMod10(c).r + 1]>>
  ELSE Append(DecimalU64(DivMod10(c).q), DigitChar[DivMod10(c).r + 1])

(* GenerateOtpAuthParams: "%s?secret=%s&algorithm=%s&counter=%d" of the
   package variable issuer, the unpadded base32 of the secret, the
   HashFunc and the counter. *)
GenerateOtpAuthParams(h, iss) ==
  iss \o "?secret=" \o Join(EncodeSecret(SecretBytes[h.secret]))
      \o "&algorithm=" \o h.hashFunc
      \o "&counter=" \o Join(DecimalU64(h.counter))

(* GenerateOtpAuth: "otpauth://hotp/%s" of the parameters. *)
GenerateOtpAuth(h, iss) == "otpauth://hotp/" \o GenerateOtpAuthParams(h, iss)

(* ----------------------------- the session ----------------------------- *)

maxLookAheadSize == 10

(* CreateHotp: SHA-1 and a look-ahead window of 0. *)
CreateHotp(secret, counter, digits) ==
  [secret          |-> secret,
   counter         |-> counter,
   digits          |-> digits,
   lookAheadWindow |-> 0,
   hashFunc        |-> SHA1,
   hasher          |-> "sha1.New"]

(* Fault variant: the bound tested with >= (the largest window refused). *)
SetLookAheadWindowGe(h, size) ==
  IF size >= maxLookAheadSize
  THEN [hotp |-> h, err |-> TRUE]
  ELSE [hotp |-> [h EXCEPT !.lookAheadWindow = size], err |-> FALSE]

(* SetLookAheadWindow: only size > maxLookAheadSize is refused. *)
SetLookAheadWindow(h, size) ==
  IF size > maxLookAheadSize
  THEN [hotp |-> h, err |-> TRUE]
  ELSE [hotp |-> [h EXCEPT !.lookAheadWindow = size], err |-> FALSE]

GetCounter(h) == h.counter

(* Fault variant: the SHA256 case stores the SHA-512 constructor. *)
SetHashFuncSwapped(h, hashFunc) ==
  CASE hashFunc = SHA1 ->
         [hotp |-> [h EXCEPT !.hashFunc = SHA1, !.hasher = "sha1.New"],
          err |-> FALSE]
    [] hashFunc = SHA256 ->
         [hotp |-> [h EXCEPT !.hashFunc = SHA256, !.hasher = "sha512.New"],
          err |-> FALSE]
    [] hashFunc = SHA512 ->
         [hotp |-> [h EXCEPT !.hashFunc = SHA512, !.hasher = "sha512.New"],
          err |-> FALSE]
    [] OTHER -> [hotp |-> h, err |-> TRUE]

(* SetHashFunc: the switch over the three identifiers. *)
SetHashFunc(h, hashFunc) ==
  CASE hashFunc = SHA1 ->
         [hotp |-> [h EXCEPT !.hashFunc = SHA1, !.hasher = "sha1.New"],
          err |-> FALSE]
    [] hashFunc = SHA256 ->
         [hotp |-> [h EXCEPT !.hashFunc = SHA256, !.hasher = "sha256.New"],
          err |-> FALSE]
    [] hashFunc = SHA512 ->
         [hotp |-> [h EXCEPT !.hashFunc = SHA512, !.hasher = "sha512.New"],
          err |-> FALSE]
    [] OTHER -> [hotp |-> h, err |-> TRUE]

(* IncrementCounter: hotp.counter += 1 on a uint64. *)
IncrementCounter(h) == [h EXCEPT !.counter = AddU64(h.counter, U64Of(1))]

(* SetCounter: any value is stored. *)
SetCounter(h, counter) == [h EXCEPT !.counter = counter]

(* `i` is within `for i := range uint64(hotp.lookAheadWindow)` after the
   i += 1: a negative window converts to 2^64 + window, above every index
   the model follows. *)
InLoop(h, i) == h.lookAheadWindow < 0 \/ i <= h.lookAheadWindow

(* Fault variant: a look-ahead match moves one past the matched index. *)
RECURSIVE lookAheadPastMatch(_, _, _)
lookAheadPastMatch(h, code, i) ==
  IF ~InLoop(h, i)
  THEN [hotp |-> h, ok |-> FALSE, probes |-> i, decided |-> TRUE]
  ELSE IF i > MaxProbe
          \/ ~Known(h.hasher, h.secret, AddU64(h.counter, U64Of(i)))
  THEN [hotp |-> h, ok |-> FALSE, probes |-> i, decided |-> FALSE]
  ELSE IF Validate(h.secret, AddU64(h.counter, U64Of(i)), h.digits, code,
                   h.hasher)
  THEN [hotp    |-> [h EXCEPT !.counter = AddU64(h.counter, U64Of(i + 1))],
        ok      |-> TRUE,
        probes  |-> i + 1,
        decided |-> TRUE]
  ELSE lookAheadPastMatch(h, code, i + 1)

(* Fault variant: the loop advances the stored counter as it probes, so an
   exhausted window leaves it moved. *)
RECURSIVE lookAheadCounting(_, _, _)
lookAheadCounting(h, code, i) ==
  IF ~InLoop(h, i)
  THEN [hotp    |-> [h EXCEPT !.counter = AddU64(h.counter, U64Of(i - 1))],
        ok      |-> FALSE,
        probes  |-> i,
        decided |-> TRUE]
  ELSE IF i > MaxProbe
          \/ ~Known(h.hasher, h.secret, AddU64(h.counter, U64Of(i)))
  THEN [hotp |-> h, ok |-> FALSE, probes |-> i, decided |-> FALSE]
  ELSE IF Validate(h.secret, AddU64(h.counter, U64Of(i)), h.digits, code,
                   h.hasher)
  THEN [hotp    |-> [h EXCEPT !.counter = AddU64(h.counter, U64Of(i))],
        ok      |-> TRUE,
        probes  |-> i + 1,
        decided |-> TRUE]
  ELSE lookAheadCounting(h, code, i + 1)

(* Fault variant: resynchronisation assigns the index instead of adding it
   (hotp.counter = i). *)
RECURSIVE lookAheadAssign(_, _, _)
lookAheadAssign(h, code, i) ==
  IF ~InLoop(h, i)
  THEN [hotp |-> h, ok |-> FALSE, probes |-> i, decided |-> TRUE]
  ELSE IF i > MaxProbe
          \/ ~Known(h.hasher, h.secret, AddU64(h.counter, U64Of(i)))
  THEN [hotp |-> h, ok |-> FALSE, probes |-> i, decided |-> FALSE]
  ELSE IF Validate(h.secret, AddU64(h.counter, U64Of(i)), h.digits, code,
                   h.hasher)
  THEN [hotp    |-> [h EXCEPT !.counter = U64Of(i)],
        ok      |-> TRUE,
        probes  |-> i + 1,
        decided |-> TRUE]
  ELSE lookAheadAssign(h, code, i + 1)

(* Fault variant: the loop does not stop at a match; a later matching index
   replaces an earlier one. *)
RECURSIVE lookAheadLastMatch(_, _, _)
lookAheadLastMatch(h, code, i) ==
  IF ~InLoop(h, i)
  THEN [hotp |-> h, ok |-> FALSE, probes |-> i, decided |-> TRUE]
  ELSE IF i > MaxProbe
          \/ ~Known(h.hasher, h.secret, AddU64(h.counter, U64Of(i)))
  THEN [hotp |-> h, ok |-> FALSE, probes |-> i, decided |-> FALSE]
  ELSE IF Validate(h.secret, AddU64(h.counter, U64Of(i)), h.digits, code,
                   h.hasher)
  THEN LET later == lookAheadLastMatch(h, code, i + 1)
       IN  IF later.decided /\ later.ok
           THEN later
           ELSE [hotp    |-> [h EXCEPT !.counter = AddU64(h.counter, U64Of(i))],
                 ok      |-> TRUE,
                 probes  |-> later.probes,
                 decided |-> later.decided]
  ELSE lookAheadLastMatch(h, code, i + 1)

(* The look-ahead loop of Hotp.Validate from index i on. probes counts the
   counters whose code was computed, the current one included. decided is
   FALSE when the loop runs past MaxProbe or past the tabulated digests. *)
RECURSIVE lookAhead(_, _, _)
lookAhead(h, code, i) ==
  IF ~InLoop(h, i)
  THEN [hotp |-> h, ok |-> FALSE, probes |-> i, decided |-> TRUE]
  ELSE IF i > MaxProbe
          \/ ~Known(h.hasher, h.secret, AddU64(h.counter, U64Of(i)))
  THEN [hotp |-> h, ok |-> FALSE, probes |-> i, decided |-> FALSE]
  ELSE IF Validate(h.secret, AddU64(h.counter, U64Of(i)), h.digits, code,
                   h.hasher)
  THEN [hotp    |-> [h EXCEPT !.counter = AddU64(h.counter, U64Of(i))],
        ok      |-> TRUE,
        probes  |-> i + 1,
        decided |-> TRUE]
  ELSE lookAhead(h, code, i + 1)

(* Fault variant: a direct match returns true without IncrementCounter. *)
HotpValidateNoIncrement(h, code) ==
  IF Validate(h.secret, h.counter, h.digits, code, h.hasher)
  THEN [hotp |-> h, ok |-> TRUE, probes |-> 1, decided |-> TRUE]
  ELSE IF h.lookAheadWindow = 0
  THEN [hotp |-> h, ok |-> FALSE, probes |-> 1, decided |-> TRUE]
  ELSE lookAhead(h, code, 1)

(* Hotp.Validate. *)
HotpValidate(h, code) ==
  IF Validate(h.secret, h.counter, h.digits, code, h.hasher)
  THEN [hotp |-> IncrementCounter(h), ok |-> TRUE, probes |-> 1,
        decided |-> TRUE]
  ELSE IF h.lookAheadWindow = 0
  THEN [hotp |-> h, ok |-> FALSE, probes |-> 1, decided |-> TRUE]
  ELSE lookAhead(h, code, 1)

(* Fault variant: a pointer receiver that steps the counter after use. *)
CalculateAndStep(h) ==
  [hotp |-> IncrementCounter(h),
   out  |-> CalculateCode(h.secret, h.counter, h.digits, h.hasher)]

(* Hotp.Calculate has a value receiver: it works on a copy of the session
   and returns the code of the current counter. *)
Calculate(h) ==
  [hotp |-> h, out |-> CalculateCode(h.secret, h.counter, h.digits, h.hasher)]

(* init: issuer starts as "", is set to "hotp" when ISSUER is empty or
   unset (os.Getenv returns "" for both), and is then assigned the
   environment value whatever it is. *)
init(envIssuer) ==
  LET declared == ""
      afterIf  == IF envIssuer = "" THEN "hotp" ELSE declared
      assigned == envIssuer
  IN  assigned

(* ----------------------------- inputs ---------------------------------- *)

Secrets == {RfcSecret, ReadmeSecret}

Digits == {6, 7, 8}

(* 2385 starts a run of counters in which the RFC secret's 6-digit SHA-1
   codes repeat (2386 and 2394 both give 709847); the last base is
   2^64 - 2, from which the counter wraps. *)
CounterBases == {U64Zero, U64Of(2385), <<65535, 65535, 65535, 65534>>}

InModel(c) ==
  \E b \in CounterBases : \E k \in 0..MaxCounter : c = AddU64(b, U64Of(k))

WindowSizes == {-1, 0, 1, 10, 11}

HashFuncs == {SHA1, SHA256, SHA512, "md5"}

(* The integer whose canonical form is the code of counter + k. *)
CodeAt(h, k) ==
  dynamicTruncate(h.secret, AddU64(h.counter, U64Of(k)), h.hasher)
    % Pow10(h.digits)

(* How far ahead of the counter the submitted codes are taken from: one
   past the window, so that a code just outside it is tried too. *)
Ahead(h) ==
  IF h.lookAheadWindow < 0 \/ h.lookAheadWindow >= MaxProbe
  THEN MaxProbe
  ELSE h.lookAheadWindow + 1

(* Codes a client may submit: those of the next counters, the current one
   with a digit too many, and a negative number. *)
SubmittedCodes(h) ==
  {CodeAt(h, k) : k \in {j \in 0..Ahead(h) :
                           Known(h.hasher, h.secret, AddU64(h.counter, U64Of(j)))}}
    \cup {CodeAt(h, 0) + Pow10(h.digits), 0 - CodeAt(h, 0) - 1}

(* ----------------------------- behaviour ------------------------------- *)

(* last records the latest call: its arguments, what it returned, and the
   session before it. *)
Call(op, pre) ==
  [op |-> op, pre |-> pre, code |-> 0, size |-> 0, alg |-> "",
   counter |-> U64Zero, ok |-> FALSE, err |-> FALSE, out |-> <<>>,
   probes |-> 0, bytes |-> <<>>, text |-> <<>>]

Init ==
  \E secret \in Secrets : \E counter \in CounterBases : \E digits \in Digits :
    /\ hotp = CreateHotp(secret, counter, digits)
    /\ last = Call("CreateHotp", CreateHotp(secret, counter, digits))
    /\ ISSUER = ""
    /\ issuer = init(ISSUER)
    /\ calls = <<>>

CallSetLookAheadWindow ==
  \E size \in WindowSizes :
    LET r == SetLookAheadWindow(hotp, size)
    IN  /\ hotp' = r.hotp
        /\ last' = [Call("SetLookAheadWindow", hotp) EXCEPT
                      !.size = size, !.err = r.err]
        /\ UNCHANGED <<issuer, calls, ISSUER>>

CallGetCounter ==
  /\ hotp' = hotp
  /\ last' = [Call("GetCounter", hotp) EXCEPT !.counter = GetCounter(hotp)]
  /\ UNCHANGED <<issuer, calls, ISSUER>>

CallSetHashFunc ==
  \E hashFunc \in HashFuncs :
    LET r == SetHashFunc(hotp, hashFunc)
    IN  /\ hotp' = r.hotp
        /\ last' = [Call("SetHashFunc", hotp) EXCEPT
                      !.alg = hashFunc, !.err = r.err]
        /\ UNCHANGED <<issuer, calls, ISSUER>>

CallIncrementCounter ==
  /\ InModel(IncrementCounter(hotp).counter)
  /\ hotp' = IncrementCounter(hotp)
  /\ last' = Call("IncrementCounter", hotp)
  /\ UNCHANGED <<issuer, calls, ISSUER>>

CallSetCounter ==
  \E counter \in CounterBases \cup {U64Of(2), U64Max} :
    /\ hotp' = SetCounter(hotp, counter)
    /\ last' = [Call("SetCounter", hotp) EXCEPT !.counter = counter]
    /\ UNCHANGED <<issuer, calls, ISSUER>>

CallValidate ==
  /\ InModel(hotp.counter)
  /\ Known(hotp.hasher, hotp.secret, hotp.counter)
  /\ \E code \in SubmittedCodes(hotp) :
       \E r \in {HotpValidate(hotp, code)} :
           /\ r.decided
           /\ hotp' = r.hotp
           /\ last' = [Call("Validate", hotp) EXCEPT
                         !.code = code, !.ok = r.ok, !.probes = r.probes]
           /\ UNCHANGED <<issuer, calls, ISSUER>>

CallCalculate ==
  /\ Known(hotp.hasher, hotp.secret, hotp.counter)
  /\ LET r == Calculate(hotp)
     IN  /\ hotp' = r.hotp
         /\ last' = [Call("Calculate", hotp) EXCEPT !.out = r.out]
         /\ UNCHANGED <<issuer, calls, ISSUER>>

Next ==
  \/ CallSetLookAheadWindow
  \/ CallGetCounter
  \/ CallSetHashFunc
  \/ CallIncrementCounter
  \/ CallSetCounter
  \/ CallValidate
  \/ CallCalculate

Spec == Init /\ [][Next]_vars


(* ------------------- provisioning URI and secret text ------------------- *)

(* Values of the ISSUER environment variable: unset or empty, and the
   README's example. *)
Envs == {"", "MyApplication"}

(* Package initialisation under each environment, then a session. *)
InitUri ==
  \E e \in Envs : \E secret \in Secrets : \E counter \in CounterBases :
    \E digits \in Digits :
      /\ ISSUER = e
      /\ issuer = init(e)
      /\ hotp = CreateHotp(secret, counter, digits)
      /\ last = Call("CreateHotp", CreateHotp(secret, counter, digits))
      /\ calls = <<>>

CallGenerateOtpAuthParams ==
  /\ hotp' = hotp
  /\ last' = [Call("GenerateOtpAuthParams", hotp) EXCEPT
                !.text = GenerateOtpAuthParams(hotp, issuer)]
  /\ UNCHANGED <<issuer, calls, ISSUER>>

CallGenerateOtpAuth ==
  /\ hotp' = hotp
  /\ last' = [Call("GenerateOtpAuth", hotp) EXCEPT
                !.text = GenerateOtpAuth(hotp, issuer)]
  /\ UNCHANGED <<issuer, calls, ISSUER>>

NextUri ==
  \/ CallSetHashFunc
  \/ CallIncrementCounter
  \/ CallSetCounter
  \/ CallGenerateOtpAuthParams
  \/ CallGenerateOtpAuth

SpecUri == InitUri /\ [][NextUri]_vars

(* Secrets are generated, displayed as text and read back. *)
CallGenerateSecret ==
  \E length \in 0..MaxSecretLen : \E secret \in GenerateSecret(length) :
    /\ last' = [Call("GenerateSecret", hotp) EXCEPT
                  !.size = length, !.bytes = secret]
    /\ UNCHANGED <<hotp, issuer, calls, ISSUER>>

(* EncodeSecret of a generated secret or of the session's. *)
CallEncodeSecret ==
  \E secret \in {SecretBytes[hotp.secret]}
                  \cup (IF last.op = "GenerateSecret" THEN {last.bytes} ELSE {}) :
    /\ last' = [Call("EncodeSecret", hotp) EXCEPT
                  !.bytes = secret, !.text = EncodeSecret(secret)]
    /\ UNCHANGED <<hotp, issuer, calls, ISSUER>>

(* DecodeSecret of the text EncodeSecret displayed, as it is or padded to
   whole quanta; bytes keeps the secret the text was made from. *)
CallDecodeSecret ==
  /\ last.op = "EncodeSecret"
  /\ \E secret \in {last.text, EncodeToString(last.bytes, TRUE)} :
       /\ last' = [Call("DecodeSecret", hotp) EXCEPT
                     !.text = secret, !.bytes = last.bytes,
                     !.out = DecodeSecret(secret).out,
                     !.err = DecodeSecret(secret).err]
       /\ UNCHANGED <<hotp, issuer, calls, ISSUER>>

NextSecret ==
  \/ CallGenerateSecret
  \/ CallEncodeSecret
  \/ CallDecodeSecret

SpecSecret == Init /\ [][NextSecret]_vars

(* ------------------- two goroutines sharing a session ------------------- *)

(* Hotp has no lock.  A Validate call is a sequence of loads and stores of
   hotp.counter: the load for the direct check, the load and the store of
   hotp.counter += 1 (IncrementCounter), a load for each look-ahead probe
   (newCounter := hotp.counter + i), the load and the store of
   hotp.counter += i.  Two goroutines interleave at these steps.  The
   caller either serializes the calls with a mutex of its own
   (calls.serialized) or does not. *)

Goroutines == {1, 2}

(* Rounds of two concurrent calls a behaviour goes through. *)
MaxRounds == 2

(* How far ahead of the round's counter the submitted codes are taken. *)
MaxAhead == 2

(* Windows set before the session is shared. *)
RaceWindows == {0, 2}

Idle ==
  [pc |-> "idle", code |-> 0, r |-> U64Zero, i |-> 0, ok |-> FALSE,
   idx |-> U64Zero]

(* return of a call: what it returned and the counter index it matched. *)
Returned(c, ok, idx) ==
  [pc |-> "done", code |-> c.code, r |-> U64Zero, i |-> 0, ok |-> ok,
   idx |-> idx]

(* Fault variant: the store writes back the value loaded, the addend
   dropped. *)
counterStoreSame(h, r, n) == [h EXCEPT !.counter = r]

(* The store half of hotp.counter += n, r being the value loaded. *)
counterStore(h, r, n) == [h EXCEPT !.counter = AddU64(r, U64Of(n))]

(* No pair of calls has shown a duplicate acceptance or a lost update. *)
Nothing == [duplicate |-> FALSE, lost |-> FALSE]

InitRace ==
  \E serialized \in BOOLEAN : \E size \in RaceWindows :
    LET h == SetLookAheadWindow(CreateHotp(RfcSecret, U64Zero, 6), size).hotp
    IN  /\ hotp = h
        /\ last = Call("SetLookAheadWindow", h)
        /\ issuer = init("")
        /\ ISSUER = ""
        /\ calls = [serialized |-> serialized, lock |-> 0, round |-> 1,
                    pre |-> h, seen |-> Nothing, g |-> <<Idle, Idle>>]

(* The lock is free, or the caller takes none. *)
MayEnter(g) == ~calls.serialized \/ calls.lock = 0

Unlock == IF calls.serialized THEN 0 ELSE calls.lock

(* A goroutine calls hotp.Validate(code), under the caller's mutex when
   there is one. *)
BeginValidate(g) ==
  /\ calls.g[g].pc = "idle"
  /\ MayEnter(g)
  /\ \E k \in 0..MaxAhead :
       calls' = [calls EXCEPT
                   !.lock = IF calls.serialized THEN g ELSE @,
                   !.g[g] = [Idle EXCEPT !.pc = "check",
                                         !.code = CodeAt(calls.pre, k)]]
  /\ UNCHANGED <<hotp, last, issuer, ISSUER>>

(* validated, err := Validate(hotp.secret, hotp.counter, ...): the counter
   is loaded and compared; then the branches up to the next access. *)
DirectCheck(g) ==
  LET c == calls.g[g]
  IN  /\ c.pc = "check"
      /\ IF Validate(hotp.secret, hotp.counter, hotp.digits, c.code, hotp.hasher)
         THEN /\ calls' = [calls EXCEPT !.g[g] = [c EXCEPT !.pc = "inc_load",
                                                          !.idx = hotp.counter]]
              /\ UNCHANGED last
         ELSE IF hotp.lookAheadWindow = 0
         THEN /\ calls' = [calls EXCEPT !.lock = Unlock,
                                        !.g[g] = Returned(c, FALSE, U64Zero)]
              /\ last' = [Call("Validate", calls.pre) EXCEPT !.code = c.code]
         ELSE /\ calls' = [calls EXCEPT !.g[g] = [c EXCEPT !.pc = "loop",
                                                          !.i = 1]]
              /\ UNCHANGED last
      /\ UNCHANGED <<hotp, issuer, ISSUER>>

(* hotp.counter += 1 of IncrementCounter: the load. *)
IncrementLoad(g) ==
  LET c == calls.g[g]
  IN  /\ c.pc = "inc_load"
      /\ calls' = [calls EXCEPT !.g[g] = [c EXCEPT !.pc = "inc_store",
                                                   !.r = hotp.counter]]
      /\ UNCHANGED <<hotp, last, issuer, ISSUER>>

(* hotp.counter += 1: the store; return true. *)
IncrementStore(g) ==
  LET c == calls.g[g]
  IN  /\ c.pc = "inc_store"
      /\ hotp' = counterStore(hotp, c.r, 1)
      /\ calls' = [calls EXCEPT !.lock = Unlock,
                                !.g[g] = Returned(c, TRUE, c.idx)]
      /\ last' = [Call("Validate", calls.pre) EXCEPT !.code = c.code,
                                                     !.ok = TRUE]
      /\ UNCHANGED <<issuer, ISSUER>>

(* One iteration of the look-ahead loop: newCounter := hotp.counter + i is
   loaded and compared; the loop ends, without a match, after the window. *)
Probe(g) ==
  LET c          == calls.g[g]
      newCounter == AddU64(hotp.counter, U64Of(c.i))
  IN  /\ c.pc = "loop"
      /\ IF ~InLoop(hotp, c.i)
         THEN /\ calls' = [calls EXCEPT !.lock = Unlock,
                                        !.g[g] = Returned(c, FALSE, U64Zero)]
              /\ last' = [Call("Validate", calls.pre) EXCEPT !.code = c.code]
         ELSE /\ Known(hotp.hasher, hotp.secret, newCounter)
              /\ IF Validate(hotp.secret, newCounter, hotp.digits, c.code,
                             hotp.hasher)
                 THEN calls' = [calls EXCEPT
                                  !.g[g] = [c EXCEPT !.pc = "add_load",
                                                     !.idx = newCounter]]
                 ELSE calls' = [calls EXCEPT
                                  !.g[g] = [c EXCEPT !.i = c.i + 1]]
              /\ UNCHANGED last
      /\ UNCHANGED <<hotp, issuer, ISSUER>>

(* hotp.counter += i: the load. *)
ResyncLoad(g) ==
  LET c == calls.g[g]
  IN  /\ c.pc = "add_load"
      /\ calls' = [calls EXCEPT !.g[g] = [c EXCEPT !.pc = "add_store",
                                                   !.r = hotp.counter]]
      /\ UNCHANGED <<hotp, last, issuer, ISSUER>>

(* hotp.counter += i: the store; return true. *)
ResyncStore(g) ==
  LET c == calls.g[g]
  IN  /\ c.pc = "add_store"
      /\ hotp' = counterStore(hotp, c.r, c.i)
      /\ calls' = [calls EXCEPT !.lock = Unlock,
                                !.g[g] = Returned(c, TRUE, c.idx)]
      /\ last' = [Call("Validate", calls.pre) EXCEPT !.code = c.code,
                                                     !.ok = TRUE]
      /\ UNCHANGED <<issuer, ISSUER>>

BothDone == \A g \in Goroutines : calls.g[g].pc = "done"

(* What a pair of calls came to: the two results and the counter. *)
Outcome == [ok |-> <<calls.g[1].ok, calls.g[2].ok>>, counter |-> hotp.counter]

(* The pair run one after the other on a session, as whole calls: r1 is
   what the first call (that of goroutine `first`) returned, r2 what the
   second returned on the session the first left. *)
SerialOutcome(r1, r2, first) ==
  [ok      |-> IF first = 1 THEN <<r1.ok, r2.ok>> ELSE <<r2.ok, r1.ok>>,
   counter |-> r2.hotp.counter]

SerialSecond(r1, code, first) ==
  SerialOutcome(r1, HotpValidate(r1.hotp, code), first)

Serial(h, codes, first) ==
  SerialSecond(HotpValidate(h, codes[first]), codes[3 - first], first)

SerialOrders ==
  {Serial(calls.pre, <<calls.g[1].code, calls.g[2].code>>, first) :
     first \in Goroutines}

(* Both calls accepted one code at one counter index, which none of the
   serial orders does. *)
DuplicateAcceptance(orders) ==
  /\ BothDone
  /\ calls.g[1].ok /\ calls.g[2].ok
  /\ calls.g[1].code = calls.g[2].code
  /\ calls.g[1].idx = calls.g[2].idx
  /\ \A s \in orders : ~(s.ok[1] /\ s.ok[2])

(* Both calls returned true, each after its store to the counter, and the
   counter ended below where every serial order leaves it: an increment or
   a resynchronization was overwritten. *)
LostUpdate(orders) ==
  /\ BothDone
  /\ calls.g[1].ok /\ calls.g[2].ok
  /\ \A s \in orders : LessU64(hotp.counter, s.counter)

ObservedAgainst(orders) ==
  [duplicate |-> DuplicateAcceptance(orders), lost |-> LostUpdate(orders)]

(* What the pair of calls that has just returned showed. *)
Observed == ObservedAgainst(SerialOrders)

(* Both calls have returned; the next two callers arrive. *)
NextRound ==
  /\ BothDone
  /\ calls.round < MaxRounds
  /\ \E seen \in {Observed} :
       calls' = [calls EXCEPT
                   !.round = @ + 1, !.pre = hotp,
                   !.seen = [duplicate |-> @.duplicate \/ seen.duplicate,
                             lost      |-> @.lost \/ seen.lost],
                   !.g = <<Idle, Idle>>]
  /\ UNCHANGED <<hotp, last, issuer, ISSUER>>

NextRace ==
  \/ \E g \in Goroutines : BeginValidate(g)
  \/ \E g \in Goroutines : DirectCheck(g)
  \/ \E g \in Goroutines : IncrementLoad(g)
  \/ \E g \in Goroutines : IncrementStore(g)
  \/ \E g \in Goroutines : Probe(g)
  \/ \E g \in Goroutines : ResyncLoad(g)
  \/ \E g \in Goroutines : ResyncStore(g)
  \/ NextRound

SpecRace == InitRace /\ [][NextRace]_vars

(* ----------------------------- properties ------------------------------ *)

(* The session before the latest call. *)
Pre == last.pre

(* The code of counter + k in session h. *)
CodeOf(h, k) ==
  CalculateCode(h.secret, AddU64(h.counter, U64Of(k)), h.digits, h.hasher)

(* The canonical form of the code submitted to the latest Validate. *)
Submitted == formatCode(last.code, Pre.digits)

(* Counter + k is a counter whose digest is tabulated. *)
KnownAhead(h, k) == Known(h.hasher, h.secret, AddU64(h.counter, U64Of(k)))

(* The last n characters of s (all of s when it has fewer). *)
Suffix(s, n) == IF n >= Len(s) THEN s ELSE SubSeq(s, Len(s) - n + 1, Len(s))

(* C1: a Validate whose submitted code has the canonical form of Calculate()
   at the current counter c returns true and leaves the counter at c + 1
   (uint64 addition), whatever the look-ahead window. *)
C1_DirectMatchAdvancesByOne ==
  (last.op = "Validate" /\ Submitted = Calculate(Pre).out)
    => /\ last.ok
       /\ hotp.counter = AddU64(Pre.counter, U64Of(1))

C1_Witness ==
  /\ last.op = "Validate"
  /\ Submitted = Calculate(Pre).out
  /\ Pre.lookAheadWindow = 10
  /\ last.ok
  /\ hotp.counter = AddU64(Pre.counter, U64Of(1))

(* C2 as stated: at counter c with window w, for every k in 1..w, Validate of
   the code of counter c + k returns true and leaves the counter at c + k. *)
C2_LandsOnSubmittedIndex ==
  \A k \in 1..MaxProbe :
    (/\ last.op = "Validate"
     /\ k <= Pre.lookAheadWindow
     /\ KnownAhead(Pre, k)
     /\ Submitted = CodeOf(Pre, k))
      => /\ last.ok
         /\ hotp.counter = AddU64(Pre.counter, U64Of(k))

(* C2 amended: Validate of the code of counter c + k (1 <= k <= w) returns
   true; the counter is left at c + k when no counter c + j with 0 <= j < k
   has the same code, and otherwise where the earlier match puts it: c + 1
   after a match at c, c + j for the smallest matching j >= 1. *)
C2_LandsOnFirstMatch ==
  \A k \in 1..MaxProbe :
    (/\ last.op = "Validate"
     /\ k <= Pre.lookAheadWindow
     /\ KnownAhead(Pre, k)
     /\ Submitted = CodeOf(Pre, k))
      => /\ last.ok
         /\ IF Submitted = CodeOf(Pre, 0)
            THEN hotp.counter = AddU64(Pre.counter, U64Of(1))
            ELSE \E j \in 1..k :
                   /\ Submitted = CodeOf(Pre, j)
                   /\ \A m \in 1..(j - 1) : Submitted # CodeOf(Pre, m)
                   /\ hotp.counter = AddU64(Pre.counter, U64Of(j))

(* The README's run: window 1 at counter 0, Validate(289757) resynchronises
   to counter 1. *)
C2_Witness ==
  /\ last.op = "Validate"
  /\ Pre.secret = ReadmeSecret
  /\ Pre.counter = U64Zero
  /\ Pre.digits = 6
  /\ Pre.lookAheadWindow = 1
  /\ last.code = 289757
  /\ Submitted = CodeOf(Pre, 1)
  /\ Submitted # CodeOf(Pre, 0)
  /\ last.ok
  /\ hotp.counter = U64Of(1)

(* C3 as stated: every successful Validate (of a session whose window is
   within 0..10) leaves the counter one past the first counter index whose
   code matched, for a direct match and for a look-ahead match alike. *)
C3_SuccessMovesOnePastMatch ==
  (/\ last.op = "Validate"
   /\ last.ok
   /\ Pre.lookAheadWindow \in 0..maxLookAheadSize)
    => \E i \in 0..MaxProbe :
         /\ KnownAhead(Pre, i)
         /\ Submitted = CodeOf(Pre, i)
         /\ \A m \in 0..(i - 1) : Submitted # CodeOf(Pre, m)
         /\ hotp.counter = AddU64(Pre.counter, U64Of(i + 1))

(* C4: a Validate that returns false leaves the counter (and every other
   field) as it was, for every window. *)
C4_NoMutationOnFailure ==
  (last.op = "Validate" /\ ~last.ok)
    => /\ hotp.counter = Pre.counter
       /\ hotp = Pre

(* The README's run: window 0 at counter 0, the code of counter 1 is
   rejected; and a rejection after the look-ahead loop ran. *)
C4_Witness ==
  /\ last.op = "Validate"
  /\ ~last.ok
  /\ Pre.lookAheadWindow = 0
  /\ Pre.secret = ReadmeSecret
  /\ last.code = 289757
  /\ Submitted = CodeOf(Pre, 1)
  /\ hotp.counter = Pre.counter

(* C5 as stated: the window stays within 0..10, and SetLookAheadWindow fails
   for a size above 10 and for a negative size. *)
C5_WindowInRange ==
  /\ 0 <= hotp.lookAheadWindow
  /\ hotp.lookAheadWindow <= maxLookAheadSize
  /\ (last.op = "SetLookAheadWindow"
      /\ (last.size > maxLookAheadSize \/ last.size < 0)) => last.err

(* C6: SetLookAheadWindow(10) succeeds and stores 10; a size above 10 is an
   error that leaves the window as it was; either way the counter, secret,
   digits and hash algorithm are untouched. *)
C6_WindowBoundary ==
  last.op = "SetLookAheadWindow"
    => /\ last.size = maxLookAheadSize
            => (~last.err /\ hotp.lookAheadWindow = maxLookAheadSize)
       /\ last.size > maxLookAheadSize
            => (last.err /\ hotp.lookAheadWindow = Pre.lookAheadWindow)
       /\ hotp.counter = Pre.counter
       /\ hotp.secret = Pre.secret
       /\ hotp.digits = Pre.digits
       /\ hotp.hashFunc = Pre.hashFunc
       /\ hotp.hasher = Pre.hasher

C6_Witness ==
  /\ last.op = "SetLookAheadWindow"
  /\ last.size = 11
  /\ last.err
  /\ Pre.lookAheadWindow = 10
  /\ hotp.lookAheadWindow = 10

(* C7 as stated: no operation leaves the counter smaller than it found it. *)
C7_CounterNeverDecreases == ~LessU64(hotp.counter, Pre.counter)

(* C7 amended: every operation but SetCounter adds a non-negative amount to
   the counter in uint64 arithmetic (0, 1 for IncrementCounter and a direct
   match, i for a look-ahead match at index i); so the counter gets smaller
   only by SetCounter, which stores any value, or when that addition wraps
   past 2^64 - 1. *)
C7_DecreaseOnlyByOverrideOrWrap ==
  /\ last.op # "SetCounter"
       => \E d \in 0..MaxProbe :
            /\ hotp.counter = AddU64(Pre.counter, U64Of(d))
            /\ d > 0 => \/ last.op = "IncrementCounter" /\ d = 1
                        \/ last.op = "Validate" /\ last.ok
  /\ LessU64(hotp.counter, Pre.counter)
       => \/ last.op = "SetCounter"
          \/ \E d \in 1..MaxProbe :
               /\ hotp.counter = AddU64(Pre.counter, U64Of(d))
               /\ LessU64(AddU64(Pre.counter, U64Of(d)), Pre.counter)
               /\ LessU64(<<65535, 65535, 65535, 65535 - d>>, Pre.counter)

(* IncrementCounter at 2^64 - 1 wraps to 0. *)
C7_Witness ==
  /\ last.op = "IncrementCounter"
  /\ Pre.counter = U64Max
  /\ hotp.counter = U64Zero

(* The constructor an identifier names. *)
HasherOf(hashFunc) ==
  CASE hashFunc = SHA1 -> "sha1.New"
    [] hashFunc = SHA256 -> "sha256.New"
    [] hashFunc = SHA512 -> "sha512.New"
    [] OTHER -> "none"

(* C8: the stored identifier and constructor always name the same algorithm
   (SHA-1 after CreateHotp); SetHashFunc with a supported identifier stores
   both, and with any other identifier is an error that changes neither. *)
C8_HashSelection ==
  /\ hotp.hasher = HasherOf(hotp.hashFunc)
  /\ last.op = "CreateHotp"
       => (hotp.hashFunc = SHA1 /\ hotp.hasher = "sha1.New")
  /\ last.op = "SetHashFunc"
       => IF last.alg \in {SHA1, SHA256, SHA512}
          THEN /\ ~last.err
               /\ hotp.hashFunc = last.alg
               /\ hotp.hasher = HasherOf(last.alg)
          ELSE /\ last.err
               /\ hotp.hashFunc = Pre.hashFunc
               /\ hotp.hasher = Pre.hasher

C8_Witness ==
  /\ last.op = "SetHashFunc"
  /\ last.alg = "md5"
  /\ last.err
  /\ Pre.hashFunc = SHA256
  /\ hotp.hashFunc = SHA256
  /\ hotp.hasher = "sha256.New"

(* C9: a Calculate step changes no field of the session, and returns what
   the Calculate before it returned when the two are consecutive; a
   GetCounter step changes no field and returns the counter. *)
C9_CalculateIsPure ==
  [][/\ last'.op = "Calculate"
          => /\ hotp' = hotp
             /\ last.op = "Calculate" => last'.out = last.out
     /\ last'.op = "GetCounter"
          => /\ hotp' = hotp
             /\ last'.counter = hotp.counter]_vars

C9_Witness ==
  /\ last.op = "Calculate"
  /\ hotp = Pre
  /\ Pre.secret = ReadmeSecret
  /\ Pre.counter = U64Of(1)
  /\ last.out = <<"2", "8", "9", "7", "5", "7">>

(* C10: the code Calculate returns has exactly `digits` characters and is
   the tail of the code of the same secret, counter and algorithm with more
   digits; in general the d1-digit code is the last d1 characters of the
   d2-digit code for d1 <= d2 <= 9. *)
C10_DigitTruncation ==
  last.op = "Calculate"
    => /\ Len(last.out) = Pre.digits
       /\ \A d2 \in Pre.digits..9 :
            last.out = Suffix(CalculateCode(Pre.secret, Pre.counter, d2,
                                            Pre.hasher), Pre.digits)
       /\ \A d1 \in 1..9 : \A d2 \in d1..9 :
            CalculateCode(Pre.secret, Pre.counter, d1, Pre.hasher)
              = Suffix(CalculateCode(Pre.secret, Pre.counter, d2, Pre.hasher),
                       d1)

(* The RFC secret at counter 4 with 7 digits: the leading zero is kept. *)
C10_Witness ==
  /\ last.op = "Calculate"
  /\ Pre.secret = RfcSecret
  /\ Pre.counter = U64Of(4)
  /\ Pre.digits = 7
  /\ Pre.hasher = "sha1.New"
  /\ last.out = <<"0", "3", "3", "8", "3", "1", "4">>
  /\ CalculateCode(Pre.secret, Pre.counter, 8, Pre.hasher)
       = <<"4", "0", "3", "3", "8", "3", "1", "4">>

(* The RFC 4226 Appendix D codes of counters 0..9, as TestHotpEightDigits
   expects them. *)
RfcVectors ==
  << <<"8", "4", "7", "5", "5", "2", "2", "4">>,
     <<"9", "4", "2", "8", "7", "0", "8", "2">>,
     <<"3", "7", "3", "5", "9", "1", "5", "2">>,
     <<"2", "6", "9", "6", "9", "4", "2", "9">>,
     <<"4", "0", "3", "3", "8", "3", "1", "4">>,
     <<"6", "8", "2", "5", "4", "6", "7", "6">>,
     <<"1", "8", "2", "8", "7", "9", "2", "2">>,
     <<"8", "2", "1", "6", "2", "5", "8", "3">>,
     <<"7", "3", "3", "9", "9", "8", "7", "1">>,
     <<"4", "5", "5", "2", "0", "4", "8", "9">> >>

(* C11: with the RFC secret, HMAC-SHA-1 and 8 digits, Calculate() at counter
   k in 0..9 returns the k-th RFC 4226 test vector. *)
C11_RfcVectors ==
  \A k \in 0..9 :
    (/\ last.op = "Calculate"
     /\ Pre.secret = RfcSecret
     /\ Pre.hasher = "sha1.New"
     /\ Pre.digits = 8
     /\ Pre.counter = U64Of(k))
      => last.out = RfcVectors[k + 1]

C11_Witness ==
  /\ last.op = "Calculate"
  /\ Pre.secret = RfcSecret
  /\ Pre.hasher = "sha1.New"
  /\ Pre.digits = 8
  /\ Pre.counter = U64Of(9)
  /\ last.out = RfcVectors[10]

(* C12 as stated: the canonical form Validate builds from a submitted code
   v >= 0 has exactly `digits` characters and is the formatting of v mod
   10^digits. *)
C12_CanonicalWidth ==
  (last.op = "Validate" /\ last.code >= 0)
    => /\ Len(Submitted) = Pre.digits
       /\ Submitted = formatCode(last.code % Pow10(Pre.digits), Pre.digits)

(* C14 as stated: Validate returns true exactly when the submitted code is
   the code of some counter c + i with 0 <= i <= w; with w = 0 only the
   current counter is probed. *)
C14_AcceptanceSet ==
  last.op = "Validate"
    => /\ last.ok <=> \E i \in 0..MaxProbe :
                        /\ i <= Pre.lookAheadWindow
                        /\ KnownAhead(Pre, i)
                        /\ Submitted = CodeOf(Pre, i)
       /\ Pre.lookAheadWindow = 0 => last.probes = 1

(* C14 for the windows the spec allows (0..10). *)
C14_AcceptanceSetInRange ==
  Pre.lookAheadWindow \in 0..maxLookAheadSize => C14_AcceptanceSet

(* C15: when the submitted code is not the code of the current counter, a
   successful Validate has probed c+1, c+2, ... in this order and stopped at
   the first match: the counter is c + i for the smallest i >= 1 whose code
   is the submitted one, and i + 1 codes were computed (the current one and
   those of c+1..c+i), none beyond c + i. *)
C15_FirstMatch ==
  (/\ last.op = "Validate"
   /\ Submitted # CodeOf(Pre, 0)
   /\ last.ok)
    => \E i \in 1..MaxProbe :
         /\ Submitted = CodeOf(Pre, i)
         /\ \A m \in 1..(i - 1) : Submitted # CodeOf(Pre, m)
         /\ hotp.counter = AddU64(Pre.counter, U64Of(i))
         /\ last.probes = i + 1

(* Two look-ahead indices give the submitted code (the RFC secret's 6-digit
   code 709847 at counters 2386 and 2394): the first one wins. *)
C15_Witness ==
  /\ last.op = "Validate"
  /\ last.ok
  /\ Pre.counter = U64Of(2385)
  /\ Pre.lookAheadWindow = 10
  /\ Submitted # CodeOf(Pre, 0)
  /\ Submitted = CodeOf(Pre, 1)
  /\ Submitted = CodeOf(Pre, 9)
  /\ hotp.counter = U64Of(2386)
  /\ last.probes = 2

(* C17 as stated: a Validate call computes the code of at most
   lookAheadWindow + 1 counters, hence of at most 11. *)
C17_BoundedWork ==
  last.op = "Validate"
    => /\ last.probes <= Pre.lookAheadWindow + 1
       /\ last.probes <= maxLookAheadSize + 1

(* C17 for the windows the spec allows (0..10). *)
C17_BoundedWorkInRange ==
  Pre.lookAheadWindow \in 0..maxLookAheadSize => C17_BoundedWork

(* The codes of counters c .. c + n of session h are pairwise distinct. *)
DistinctCodes(h, n) ==
  \A a \in 0..n : \A b \in 0..n :
    /\ KnownAhead(h, a)
    /\ a < b => CodeOf(h, a) # CodeOf(h, b)

(* C18 as stated: in a session with a window within 0..10 whose codes for
   c .. c + window + 1 are pairwise distinct, a code accepted by one
   Validate is rejected by the Validate that follows it with the same
   code. *)
C18_OneTimeUse ==
  [][(/\ last.op = "Validate"
      /\ last.ok
      /\ Pre.lookAheadWindow \in 0..maxLookAheadSize
      /\ DistinctCodes(Pre, Pre.lookAheadWindow + 1)
      /\ last'.op = "Validate"
      /\ last'.pre = hotp
      /\ last'.code = last.code)
       => ~last'.ok]_vars

(* The truncation the claim describes: the offset is the low nibble of the
   last byte of the digest. *)
LastByteTruncate(hash) ==
  LET offset == hash[Len(hash)] % 16
  IN  (hash[offset + 1] % 128) * 16777216 + hash[offset + 2] * 65536
        + hash[offset + 3] * 256 + hash[offset + 4]

(* C16 as stated: for each algorithm (digest length L in {20, 32, 64}) the
   value Calculate truncates to is the one taken at offset
   digest[L-1] & 0x0F, with the top bit cleared; it lies in [0, 2^31-1] and
   offset + 4 <= L. *)
C16_LastByteOffset ==
  last.op = "Calculate"
    => LET hash == HmacSum(Pre.hasher, Pre.secret, PutUint64(Pre.counter))
           L    == Len(hash)
           v    == dynamicTruncate(Pre.secret, Pre.counter, Pre.hasher)
       IN  /\ L \in {20, 32, 64}
           /\ (hash[L] % 16) + 4 <= L
           /\ v \in 0..2147483647
           /\ v = LastByteTruncate(hash)
           /\ last.out = formatCode(v % Pow10(Pre.digits), Pre.digits)

(* C16 for SHA-1 alone, where the last byte is hash[19]. *)
C16_LastByteOffsetSha1 ==
  Pre.hasher = "sha1.New" => C16_LastByteOffset

(* C19 as stated: DecodeSecret of the text EncodeSecret made from a secret
   s, of any length, succeeds and returns s. *)
C19_RoundTrip ==
  (/\ last.op = "DecodeSecret"
   /\ last.text = EncodeSecret(last.bytes))
    => /\ ~last.err
       /\ last.out = last.bytes

(* C19 for the secrets whose length is a multiple of 5 (the README's
   20-byte secret among them), and for the padded text of any secret. *)
C19_RoundTripWholeQuanta ==
  (/\ last.op = "DecodeSecret"
   /\ \/ Len(last.bytes) % 5 = 0
      \/ last.text = EncodeToString(last.bytes, TRUE))
    => /\ ~last.err
       /\ last.out = last.bytes

(* The README's encoded secret is the text of its 20 bytes. *)
ReadmeSecretText ==
  Join(EncodeSecret(SecretBytes[ReadmeSecret]))
    = "UMMZWVYTALVNLF2F2E46CGLB273LSV67"

(* C20 as stated: the issuer label GenerateOtpAuthParams uses is ISSUER
   when that is set and non-empty and "hotp" otherwise; it is never
   empty. *)
C20_IssuerDefault ==
  last.op = "GenerateOtpAuthParams"
    => LET label == IF ISSUER # "" THEN ISSUER ELSE "hotp"
       IN  /\ issuer # ""
           /\ issuer = label
           /\ last.text = GenerateOtpAuthParams(Pre, label)

(* C20 when ISSUER is set and non-empty. *)
C20_IssuerFromEnv ==
  ISSUER # "" => C20_IssuerDefault

(* C13: two Validate calls sharing a session behave as one of their two
   serial orders whenever the caller serializes them, so a duplicate
   acceptance or a lost update is never seen then; without serialization
   the loads and stores of the counter interleave, and there are
   interleavings in which both calls accept one code at one counter index
   and interleavings in which the counter ends below that of every serial
   order (the witness has seen both). *)
C13_RacesOnlyUnsynchronized ==
  calls.serialized
    => /\ BothDone => Outcome \in SerialOrders
       /\ calls.seen = Nothing
       /\ Observed = Nothing

(* An unsynchronized session that has gone through both: a duplicate
   acceptance in one pair of calls and a lost update in another. *)
C13_Witness ==
  /\ ~calls.serialized
  /\ BothDone
  /\ calls.seen.duplicate \/ Observed.duplicate
  /\ calls.seen.lost \/ Observed.lost
====
